---- MODULE Spec2Model ----
(***************************************************************************)
(* licer: license header management.  Model of the header classifier      *)
(* (DetectExistingHeader and its helpers), the ownership validator         *)
(* (CanRemoveHeader), the file mutators (modifyFile, RemoveHeader), the    *)
(* comment-style registry and ProcessFile.                                 *)
(*                                                                         *)
(* A Go string is a sequence of one-character strings; a file is its byte  *)
(* content, newlines included.  Line numbers are 0-based as in the code,   *)
(* so line i of a split sequence ls is ls[i + 1].                          *)
(***************************************************************************)
EXTENDS Integers, Sequences, FiniteSets, TLC

VARIABLES
    content,    \* bytes of the file on disk
    ext,        \* filepath.Ext of the file's name
    config,     \* the *Config handed to ProcessFile
    prev,       \* bytes of the file before the last ProcessFile call
    op,         \* flags of the last call: "none", "normal", "force", "remove"
    result,     \* ProcessResult returned by the last call
    info,       \* HeaderInfo the last call classified the file with
    trail,      \* the calls made on the file so far: flags and Action of each
    tree,       \* the repository the walker runs on: directories and files
    faults,     \* the directories and files whose reads or writes fail
    crawler,    \* the Crawler's forceReplace, removeMode and verbose
    pc,         \* per directory: where its processDirectoryRecursive task stands
    todo,       \* per directory: the regular files its loop has still to process
    res,        \* per directory: the ProcessResult its task has in hand
    sem,        \* per directory: the tokens in its semaphore channel
    stats,      \* the Crawler's ProcessingStats
    logMutex,   \* the directory whose task holds logMutex, <<>> when free
    disk,       \* per file: its bytes
    history,    \* per file: the results of the ProcessFile calls made on it
    listed,     \* the directories os.ReadDir was called on
    ret,        \* what ProcessRepository returned: "running" until it does
    gitHooks,   \* .git/hooks of the repository: the directory and its two files
    hookOp,     \* the last hook operation: "none", "install", "uninstall", "main"
    hookErr,    \* the error it returned, "nil" for none
    prompted,   \* main has asked whether to install the hook
    userHook,   \* the pre-commit file the user had before licer ran
    hookCalls   \* the hook operations made so far

fileVars == <<content, ext, prev, op, result, info, trail>>

walkVars == <<tree, faults, crawler, pc, todo, res, sem, stats, logMutex, disk,
              history, listed, ret>>

hookVars == <<gitHooks, hookOp, hookErr, prompted, userHook, hookCalls>>

vars == <<content, ext, config, prev, op, result, info, trail, tree, faults, crawler,
          pc, todo, res, sem, stats, logMutex, disk, history, listed, ret,
         gitHooks, hookOp, hookErr, prompted, userHook, hookCalls>>

----------------------------------------------------------------------------
(* Go's strings package, as far as the program uses it *)

NL == "\n"

\* unicode.IsSpace on the bytes that occur
IsSpace(c) == c \in {" ", "\t", "\r", "\n"}

UpperCase ==
    <<"A","B","C","D","E","F","G","H","I","J","K","L","M",
      "N","O","P","Q","R","S","T","U","V","W","X","Y","Z">>

LowerCase ==
    <<"a","b","c","d","e","f","g","h","i","j","k","l","m",
      "n","o","p","q","r","s","t","u","v","w","x","y","z">>

\* unicode.ToLower on the bytes that occur
LowerOf ==
    [c \in {UpperCase[k] : k \in 1..26} |->
        LowerCase[CHOOSE k \in 1..26 : UpperCase[k] = c]]

UpperSet == DOMAIN LowerOf

\* strings.ToLower
ToLower(s) ==
    [i \in 1..Len(s) |-> IF s[i] \in UpperSet THEN LowerOf[s[i]] ELSE s[i]]

\* index of the first byte of s at or after i that is no white space
RECURSIVE firstNonSpace(_, _)
firstNonSpace(s, i) ==
    IF i <= Len(s) /\ IsSpace(s[i]) THEN firstNonSpace(s, i + 1) ELSE i

\* index of the last byte of s at or before i that is no white space
RECURSIVE lastNonSpace(_, _)
lastNonSpace(s, i) ==
    IF i >= 1 /\ IsSpace(s[i]) THEN lastNonSpace(s, i - 1) ELSE i

\* strings.TrimSpace
TrimSpace(s) ==
    LET lo == firstNonSpace(s, 1)
    IN  IF lo > Len(s) THEN <<>> ELSE SubSeq(s, lo, lastNonSpace(s, Len(s)))

\* strings.HasPrefix
HasPrefix(s, p) ==
    /\ Len(p) <= Len(s)
    /\ \A j \in 1..Len(p) : s[j] = p[j]

\* strings.Contains
Contains(s, sub) ==
    \E i \in 1..(Len(s) - Len(sub) + 1) :
        \A j \in 1..Len(sub) : s[i + j - 1] = sub[j]

\* strings.Split(s, "\n"): the text between the newlines, at least one element
Split(s) ==
    LET pos  == SelectSeq([i \in 1..Len(s) |-> i], LAMBDA i : s[i] = NL)
        b(k) == IF k = 0 THEN 0 ELSE IF k > Len(pos) THEN Len(s) + 1 ELSE pos[k]
    IN  [k \in 1..(Len(pos) + 1) |-> SubSeq(s, b(k - 1) + 1, b(k) - 1)]

\* strings.Join(ls, "\n")
RECURSIVE Join(_)
Join(ls) ==
    IF Len(ls) = 0 THEN <<>>
    ELSE IF Len(ls) = 1 THEN ls[1]
    ELSE ls[1] \o <<NL>> \o Join(Tail(ls))

\* bufio.ScanLines drops one trailing carriage return of a token
dropCR(s) ==
    IF Len(s) > 0 /\ s[Len(s)] = "\r" THEN SubSeq(s, 1, Len(s) - 1) ELSE s

\* The tokens bufio.Scanner yields for a file: the newline-terminated lines and
\* a last unterminated line when it is not empty, each without its trailing "\r".
ScanLines(bytes) ==
    LET ls == Split(bytes)
        n  == IF ls[Len(ls)] = <<>> THEN Len(ls) - 1 ELSE Len(ls)
    IN  [i \in 1..n |-> dropCR(ls[i])]

----------------------------------------------------------------------------
(* Header classifier *)

maxLinesToCheck == 20

\* HeaderInfo{} as DetectExistingHeader initialises it
NoHeaderInfo ==
    [HasHeader |-> FALSE, HasThirdPartyCopyright |-> FALSE,
     StartLine |-> -1, EndLine |-> -1, HasShebang |-> FALSE]

\* containsSPDXIdentifier without the lower-casing: matches the lower-case
\* spelling only
containsSPDXIdentifierExact(line) ==
    Contains(line, <<"s", "p", "d", "x", "-", "l", "i", "c", "e", "n", "s", "e", "-", "i", "d", "e", "n", "t", "i", "f", "i", "e", "r">>)

containsSPDXIdentifier(line) ==
    Contains(ToLower(line), <<"s", "p", "d", "x", "-", "l", "i", "c", "e", "n", "s", "e", "-", "i", "d", "e", "n", "t", "i", "f", "i", "e", "r">>)

commentPrefixes ==
    <<<<"/", "/">>, <<"#">>, <<"/", "*">>, <<"*">>, <<";", ";">>, <<"-", "-">>, <<"\"">>, <<"R", "E", "M">>, <<"C">>, <<"!">>, <<"%">>>>

isCommentLine(line) ==
    LET trimmed == TrimSpace(line)
    IN  IF trimmed = <<>> THEN FALSE
        ELSE \E k \in 1..Len(commentPrefixes) : HasPrefix(trimmed, commentPrefixes[k])

\* the condition under which findHeaderStart walks on over line
startContinues(raw) ==
    LET line == ToLower(TrimSpace(raw))
    IN  \/ Contains(line, <<"c", "o", "p", "y", "r", "i", "g", "h", "t">>)
        \/ Contains(line, <<"l", "i", "c", "e", "n", "s", "e", "d", " ", "u", "n", "d", "e", "r">>)
        \/ Contains(line, <<"d", "e", "v", "e", "l", "o", "p", "e", "d", " ", "b", "y">>)
        \/ Contains(line, <<"a", "u", "t", "h", "o", "r">>)
        \/ isCommentLine(raw)

\* the backward loop of findHeaderStart, at index i
RECURSIVE headerStartWalk(_, _, _)
headerStartWalk(lines, i, startLine) ==
    IF i < startLine THEN startLine
    ELSE IF i < 0 \/ i >= Len(lines) THEN headerStartWalk(lines, i - 1, startLine)
    ELSE IF startContinues(lines[i + 1]) THEN headerStartWalk(lines, i - 1, startLine)
    ELSE i + 1

\* findHeaderStart(filename, spdxLine): spdxLine is 1-based
findHeaderStart(sl, spdxLine) ==
    LET n         == IF spdxLine < Len(sl) THEN spdxLine ELSE Len(sl)
        lines     == SubSeq(sl, 1, n)
        startLine == IF Len(lines) > 0 /\ HasPrefix(TrimSpace(lines[1]), <<"#", "!">>)
                     THEN 1 ELSE 0
    IN  headerStartWalk(lines, spdxLine - 2, startLine)

\* the condition under which findHeaderEnd extends the header over a line
endContinues(raw) ==
    LET line      == TrimSpace(raw)
        lowerLine == ToLower(line)
    IN  \/ (line = <<>> /\ isCommentLine(raw))
        \/ Contains(lowerLine, <<"s", "e", "e", " ", "l", "i", "c", "e", "n", "s", "e">>)
        \/ Contains(lowerLine, <<"d", "e", "v", "e", "l", "o", "p", "e", "d", " ", "b", "y">>)
        \/ Contains(lowerLine, <<"o", "r", "e", "g", "o", "n", " ", "s", "t", "a", "t", "e", " ", "u", "n", "i", "v", "e", "r", "s", "i", "t", "y">>)
        \/ isCommentLine(raw)

\* the forward loop of findHeaderEnd; i is the 0-based index of the next line
RECURSIVE headerEndWalk(_, _, _)
headerEndWalk(sl, i, endLine) ==
    IF i >= Len(sl) THEN endLine
    ELSE IF endContinues(sl[i + 1]) THEN headerEndWalk(sl, i + 1, i)
    ELSE endLine

\* findHeaderEnd(filename, spdxLine): spdxLine is 0-based, -1 when unset
findHeaderEnd(sl, spdxLine) ==
    LET skipped == IF spdxLine + 1 < 0 THEN 0
                   ELSE IF spdxLine + 1 > Len(sl) THEN Len(sl) ELSE spdxLine + 1
    IN  headerEndWalk(sl, skipped, spdxLine)

\* the license-related keywords of findThirdPartyCopyrightBlock
licenseRelated(raw) ==
    LET line      == TrimSpace(raw)
        lineLower == ToLower(line)
    IN  \/ Contains(lineLower, <<"p", "e", "r", "m", "i", "s", "s", "i", "o", "n">>)
        \/ Contains(lineLower, <<"l", "i", "c", "e", "n", "s", "e">>)
        \/ Contains(lineLower, <<"s", "o", "f", "t", "w", "a", "r", "e">>)
        \/ Contains(lineLower, <<"r", "i", "g", "h", "t", "s">>)
        \/ Contains(lineLower, <<"d", "i", "s", "t", "r", "i", "b", "u", "t", "e">>)
        \/ Contains(lineLower, <<"m", "o", "d", "i", "f", "y">>)
        \/ Contains(lineLower, <<"u", "s", "e">>)
        \/ Contains(lineLower, <<"w", "i", "t", "h", "o", "u", "t", " ", "w", "a", "r", "r", "a", "n", "t", "y">>)
        \/ Contains(lineLower, <<"l", "i", "a", "b", "i", "l", "i", "t", "y">>)
        \/ Contains(lineLower, <<"d", "a", "m", "a", "g", "e", "s">>)
        \/ isCommentLine(raw)
        \/ line = <<>>

\* the scanning loop of findThirdPartyCopyrightBlock from 0-based line i on
RECURSIVE thirdPartyWalk(_, _, _, _)
thirdPartyWalk(sl, i, startLine, endLine) ==
    IF i >= Len(sl) THEN <<startLine, endLine>>
    ELSE LET lineLower == ToLower(TrimSpace(sl[i + 1]))
             start2    == IF startLine = -1 /\ Contains(lineLower, <<"c", "o", "p", "y", "r", "i", "g", "h", "t">>)
                          THEN i ELSE startLine
         IN  IF start2 # -1
             THEN IF licenseRelated(sl[i + 1])
                  THEN thirdPartyWalk(sl, i + 1, start2, i)
                  ELSE <<start2, endLine>>
             ELSE thirdPartyWalk(sl, i + 1, start2, endLine)

\* a block whose end was never set ends on the line it starts on
singleLine(blk) ==
    IF blk[1] # -1 /\ blk[2] = -1 THEN <<blk[1], blk[1]>> ELSE blk

\* findThirdPartyCopyrightBlock(filename): <<startLine, endLine>>
findThirdPartyCopyrightBlock(sl) ==
    LET first  == IF Len(sl) > 0 THEN TrimSpace(sl[1]) ELSE <<>>
        start0 == IF Len(sl) > 0 /\ ~HasPrefix(first, <<"#", "!">>)
                     /\ Contains(ToLower(first), <<"c", "o", "p", "y", "r", "i", "g", "h", "t">>)
                  THEN 0 ELSE -1
    IN  singleLine(thirdPartyWalk(sl, 1, start0, -1))

\* the first-three-lines part of DetectExistingHeader: lines 1 and 2
RECURSIVE nextTwoLines(_, _, _)
nextTwoLines(sl, i, inf) ==
    IF i > 2 \/ i >= Len(sl) THEN inf
    ELSE IF containsSPDXIdentifier(TrimSpace(sl[i + 1]))
         THEN nextTwoLines(sl, i + 1,
                [inf EXCEPT !.HasHeader = TRUE,
                            !.StartLine = IF inf.StartLine = -1
                                          THEN findHeaderStart(sl, i + 1)
                                          ELSE inf.StartLine,
                            !.EndLine = i])
         ELSE nextTwoLines(sl, i + 1, inf)

\* the loop over the remaining lines, up to maxLinesToCheck, first match wins
RECURSIVE remainingLines(_, _, _)
remainingLines(sl, i, inf) ==
    IF i >= Len(sl) \/ i >= maxLinesToCheck THEN inf
    ELSE IF containsSPDXIdentifier(TrimSpace(sl[i + 1]))
         THEN [inf EXCEPT !.HasHeader = TRUE,
                          !.StartLine = IF inf.StartLine = -1
                                        THEN findHeaderStart(sl, i + 1)
                                        ELSE inf.StartLine,
                          !.EndLine = i]
         ELSE remainingLines(sl, i + 1, inf)

\* mentionsCopyright without the lower-casing
mentionsCopyrightExact(firstThreeLines) ==
    \E k \in 1..Len(firstThreeLines) :
        Contains(firstThreeLines[k], <<"c", "o", "p", "y", "r", "i", "g", "h", "t">>)

\* the check of the first three lines for a third-party copyright
mentionsCopyright(firstThreeLines) ==
    \E k \in 1..Len(firstThreeLines) :
        Contains(ToLower(firstThreeLines[k]), <<"c", "o", "p", "y", "r", "i", "g", "h", "t">>)

\* the first line: a shebang, and the marker on line 0
firstLine(sl) ==
    LET line == IF Len(sl) > 0 THEN TrimSpace(sl[1]) ELSE <<>>
    IN  [NoHeaderInfo EXCEPT
           !.HasShebang = Len(sl) > 0 /\ HasPrefix(line, <<"#", "!">>),
           !.HasHeader  = Len(sl) > 0 /\ containsSPDXIdentifier(line),
           !.StartLine  = IF Len(sl) > 0 /\ containsSPDXIdentifier(line)
                          THEN 0 ELSE -1]

\* the trimmed lines DetectExistingHeader collects as firstThreeLines
firstThree(sl) ==
    [k \in 1..(IF Len(sl) < 3 THEN Len(sl) ELSE 3) |-> TrimSpace(sl[k])]

\* the third-party check, made when no marker was seen on the first three lines
thirdPartyCheck(sl, inf) ==
    [inf EXCEPT !.HasThirdPartyCopyright =
                    ~inf.HasHeader /\ mentionsCopyright(firstThree(sl))]

\* info.StartLine, info.EndLine = blk
setSpan(inf, blk) == [inf EXCEPT !.StartLine = blk[1], !.EndLine = blk[2]]

\* the end of DetectExistingHeader: the span of what was found
headerSpan(sl, inf) ==
    IF inf.HasHeader
    THEN [inf EXCEPT !.EndLine = findHeaderEnd(sl, inf.EndLine)]
    ELSE IF inf.HasThirdPartyCopyright
    THEN setSpan(inf, findThirdPartyCopyrightBlock(sl))
    ELSE inf

\* DetectExistingHeader on the lines the scanner yields
detectLines(sl) ==
    headerSpan(sl, remainingLines(sl, 3,
                       thirdPartyCheck(sl, nextTwoLines(sl, 1, firstLine(sl)))))

\* DetectExistingHeader(filename) on the file's bytes
DetectExistingHeader(bytes) == detectLines(ScanLines(bytes))

----------------------------------------------------------------------------
(* Comment-style registry *)

CommentStyle(line, blockStart, blockEnd) ==
    [Line |-> line, BlockStart |-> blockStart, BlockEnd |-> blockEnd]

\* the extensions of each comment style of the table
styleGroups ==
    <<
      <<CommentStyle(<<"/", "/">>, <<"/", "*">>, <<"*", "/">>),
        {<<".", "g", "o">>, <<".", "j", "s">>, <<".", "m", "j", "s">>, <<".", "c", "j", "s">>, <<".", "t", "s">>, <<".", "t", "s", "x">>, <<".", "j", "s", "x">>, <<".", "s", "c", "s", "s">>, 
          <<".", "s", "a", "s", "s">>, <<".", "l", "e", "s", "s">>, <<".", "j", "a", "v", "a">>, <<".", "c">>, <<".", "c", "p", "p">>, <<".", "c", "c">>, <<".", "c", "x", "x">>, <<".", "h">>, 
          <<".", "h", "p", "p">>, <<".", "r", "s">>, <<".", "s", "w", "i", "f", "t">>, <<".", "k", "t">>, <<".", "s", "c", "a", "l", "a">>, <<".", "c", "s">>, <<".", "m">>, <<".", "m", "m">>, 
          <<".", "p", "h", "p">>, <<".", "d", "a", "r", "t">>, <<".", "d">>, <<".", "v">>, <<".", "v", "v">>}>>,
      <<CommentStyle(<<"#">>, <<>>, <<>>),
        {<<".", "p", "y">>, <<".", "s", "h">>, <<".", "r", "b">>, <<".", "y", "a", "m", "l">>, <<".", "y", "m", "l">>, <<".", "t", "o", "m", "l">>, <<".", "i", "n", "i">>, 
          <<".", "c", "f", "g">>, <<".", "c", "o", "n", "f">>, <<".", "r">>, <<".", "R">>, <<".", "p", "l">>, <<".", "p", "m">>, <<".", "c", "r">>, <<".", "e", "x">>, 
          <<".", "e", "x", "s">>, <<>>}>>,
      <<CommentStyle(<<"<", "!", "-", "-">>, <<"<", "!", "-", "-">>, <<"-", "-", ">">>),
        {<<".", "h", "t", "m", "l">>, <<".", "h", "t", "m">>, <<".", "r", "m", "d">>, <<".", "R", "m", "d">>}>>,
      <<CommentStyle(<<"/", "*">>, <<"/", "*">>, <<"*", "/">>),
        {<<".", "c", "s", "s">>}>>,
      <<CommentStyle(<<"-", "-">>, <<"/", "*">>, <<"*", "/">>),
        {<<".", "s", "q", "l">>}>>,
      <<CommentStyle(<<"-", "-">>, <<"-", "-", "[", "[">>, <<"-", "-", "]", "]">>),
        {<<".", "l", "u", "a">>}>>,
      <<CommentStyle(<<"\"">>, <<>>, <<>>),
        {<<".", "v", "i", "m">>, <<".", "v", "i", "m", "r", "c">>}>>,
      <<CommentStyle(<<";", ";">>, <<>>, <<>>),
        {<<".", "e", "l">>, <<".", "l", "i", "s", "p">>, <<".", "l", "s", "p">>, <<".", "c", "l", "j">>, <<".", "c", "l", "j", "s">>}>>,
      <<CommentStyle(<<"-", "-">>, <<"{", "-">>, <<"-", "}">>),
        {<<".", "h", "s">>, <<".", "l", "h", "s">>}>>,
      <<CommentStyle(<<"(", "*">>, <<>>, <<"*", ")">>),
        {<<".", "m", "l">>, <<".", "m", "l", "i">>}>>,
      <<CommentStyle(<<"/", "/">>, <<"{">>, <<"}">>),
        {<<".", "p", "a", "s">>}>>,
      <<CommentStyle(<<"C">>, <<"C">>, <<"C">>),
        {<<".", "f">>}>>,
      <<CommentStyle(<<"!">>, <<"!">>, <<"!">>),
        {<<".", "f", "9", "0">>, <<".", "f", "9", "5">>}>>,
      <<CommentStyle(<<"#">>, <<"#", "=">>, <<"=", "#">>),
        {<<".", "j", "l">>}>>,
      <<CommentStyle(<<"/", "/">>, <<>>, <<>>),
        {<<".", "z", "i", "g">>}>>,
      <<CommentStyle(<<"#">>, <<"#", "[">>, <<"]", "#">>),
        {<<".", "n", "i", "m">>}>>,
      <<CommentStyle(<<"%">>, <<>>, <<>>),
        {<<".", "e", "r", "l">>, <<".", "h", "r", "l">>}>>,
      <<CommentStyle(<<"/", "/">>, <<"(", "*">>, <<"*", ")">>),
        {<<".", "f", "s">>, <<".", "f", "s", "x">>, <<".", "f", "s", "i">>}>>,
      <<CommentStyle(<<"R", "E", "M">>, <<>>, <<>>),
        {<<".", "b", "a", "t">>, <<".", "c", "m", "d">>}>>,
      <<CommentStyle(<<"#">>, <<"<", "#">>, <<"#", ">">>),
        {<<".", "p", "s", "1">>, <<".", "p", "s", "m", "1">>}>> >>

styledExtensions == UNION {styleGroups[g][2] : g \in 1..Len(styleGroups)}

\* var commentStyles = map[string]CommentStyle{...}
commentStyles ==
    [e \in styledExtensions |->
        styleGroups[CHOOSE g \in 1..Len(styleGroups) : e \in styleGroups[g][2]][1]]

\* var excludedExtensions = map[string]bool{...}
excludedExtensions ==
    {<<".", "m", "d">>, <<".", "t", "x", "t">>, <<".", "j", "s", "o", "n">>, <<".", "x", "m", "l">>, <<".", "c", "s", "v">>, <<".", "t", "s", "v">>, <<".", "l", "o", "g">>, 
     <<".", "o", "u", "t">>, <<".", "p", "d", "f">>, <<".", "d", "o", "c">>, <<".", "d", "o", "c", "x">>, <<".", "x", "l", "s">>, <<".", "x", "l", "s", "x">>, <<".", "p", "p", "t">>, 
     <<".", "p", "p", "t", "x">>, <<".", "z", "i", "p">>, <<".", "t", "a", "r">>, <<".", "g", "z">>, <<".", "b", "z", "2">>, <<".", "x", "z">>, <<".", "7", "z">>, <<".", "r", "a", "r">>, 
     <<".", "p", "n", "g">>, <<".", "j", "p", "g">>, <<".", "j", "p", "e", "g">>, <<".", "g", "i", "f">>, <<".", "b", "m", "p">>, <<".", "t", "i", "f", "f">>, <<".", "s", "v", "g">>, 
     <<".", "i", "c", "o">>, <<".", "m", "p", "3">>, <<".", "m", "p", "4">>, <<".", "a", "v", "i">>, <<".", "m", "o", "v">>, <<".", "m", "k", "v">>, <<".", "w", "a", "v">>, 
     <<".", "f", "l", "a", "c">>, <<".", "e", "x", "e">>, <<".", "d", "l", "l">>, <<".", "s", "o">>, <<".", "d", "y", "l", "i", "b">>, <<".", "a">>, <<".", "l", "i", "b">>, 
     <<".", "o", "b", "j">>, <<".", "o">>, <<".", "c", "l", "a", "s", "s">>, <<".", "j", "a", "r">>, <<".", "w", "a", "r">>, <<".", "e", "a", "r">>, <<".", "p", "y", "c">>, 
     <<".", "p", "y", "o">>, <<".", "p", "y", "d">>, <<".", "w", "h", "l">>, <<".", "e", "g", "g">>, <<".", "d", "e", "b">>, <<".", "r", "p", "m">>, <<".", "m", "s", "i">>, 
     <<".", "d", "m", "g">>, <<".", "i", "s", "o">>, <<".", "i", "m", "g">>}

\* a byte that is neither printable nor white space stands as one element
NUL == "NUL"
SOH == "SOH"

\* isTextFile(filename): the sniff over the first 512 bytes
isTextFile(bytes) ==
    LET n            == IF Len(bytes) < 512 THEN Len(bytes) ELSE 512
        nullBytes    == Cardinality({i \in 1..n : bytes[i] = NUL})
        nonPrintable == Cardinality({i \in 1..n : bytes[i] = SOH})
    IN  IF n = 0 THEN FALSE
        ELSE IF nullBytes > 0 \/ 10 * nonPrintable > 3 * n THEN FALSE
        ELSE TRUE

\* ShouldProcessFile that looks at the content only
ShouldProcessFileTextOnly(fileExt, bytes) == isTextFile(bytes)

\* ShouldProcessFile(filename), with fileExt = filepath.Ext(filename)
ShouldProcessFile(fileExt, bytes) ==
    LET e == ToLower(fileExt)
    IN  IF e \in excludedExtensions THEN FALSE
        ELSE IF e \notin DOMAIN commentStyles /\ e # <<>> THEN FALSE
        ELSE IF e = <<>> THEN isTextFile(bytes)
        ELSE TRUE

\* GetCommentStyle(filename): <<style, ok>>
GetCommentStyle(fileExt, bytes) ==
    LET e == ToLower(fileExt)
    IN  IF e \in excludedExtensions THEN <<CommentStyle(<<>>, <<>>, <<>>), FALSE>>
        ELSE IF e \notin DOMAIN commentStyles
        THEN IF e = <<>> /\ isTextFile(bytes)
             THEN <<commentStyles[<<>>], TRUE>>
             ELSE <<CommentStyle(<<>>, <<>>, <<>>), FALSE>>
        ELSE <<commentStyles[e], TRUE>>

----------------------------------------------------------------------------
(* Header templates *)

\* time.Now().Year() printed with %d
year == <<"2", "0", "2", "5">>

generateStudentHeader(cfg, y) ==
    <<"C", "o", "p", "y", "r", "i", "g", "h", "t", " ", "(", "c", ")", " ">> \o y \o <<" ">> \o cfg.FullName
      \o <<"\n", "\n", "S", "P", "D", "X", "-", "L", "i", "c", "e", "n", "s", "e", "-", "I", "d", "e", "n", "t", "i", "f", "i", "e", "r", ":", " ", "M", "I", "T", "\n", "S", "e", "e", " ", "L", "I", "C", "E", "N", "S", "E", " ", "f", "i", "l", "e", " ", "f", "o", "r", " ", "f", "u", "l", "l", " ", "l", "i", "c", "e", "n", "s", "e", " ", "t", "e", "x", "t", ".">>

generateFacultyStaffHeader(cfg, y) ==
    <<"C", "o", "p", "y", "r", "i", "g", "h", "t", " ">> \o y \o <<" ", "O", "r", "e", "g", "o", "n", " ", "S", "t", "a", "t", "e", " ", "U", "n", "i", "v", "e", "r", "s", "i", "t", "y", "\n", "\n", "L", "i", "c", "e", "n", "s", "e", "d", " ", "u", "n", "d", "e", "r", " ", "t", "h", "e", " ", "A", "p", "a", "c", "h", "e", " ", "L", "i", "c", "e", "n", "s", "e", ",", " ", "V", "e", "r", "s", "i", "o", "n", " ", "2", ".", "0", ".", "\n", "S", "e", "e", " ", "t", "h", "e", " ", "L", "I", "C", "E", "N", "S", "E", " ", "f", "i", "l", "e", " ", "f", "o", "r", " ", "d", "e", "t", "a", "i", "l", "s", ".", "\n", "S", "P", "D", "X", "-", "L", "i", "c", "e", "n", "s", "e", "-", "I", "d", "e", "n", "t", "i", "f", "i", "e", "r", ":", " ", "A", "p", "a", "c", "h", "e", "-", "2", ".", "0", "\n", "\n", "D", "e", "v", "e", "l", "o", "p", "e", "d", " ", "b", "y", ":", " ">>
      \o cfg.FullName \o <<"\n", " ", " ", " ", " ", " ", " ", " ", " ", " ", " ", " ", " ", " ", " ">> \o cfg.DeptOrLab

GenerateHeader(cfg) ==
    CASE cfg.DefaultRole = "Student" -> generateStudentHeader(cfg, year)
      [] cfg.DefaultRole \in {"Faculty", "Staff"} -> generateFacultyStaffHeader(cfg, year)
      [] OTHER -> generateStudentHeader(cfg, year)

\* GetLicenseType(config): GetHeaderTemplate(config).LicenseType
GetLicenseType(cfg) ==
    CASE cfg.DefaultRole = "Student" -> "MIT"
      [] cfg.DefaultRole \in {"Faculty", "Staff"} -> "Apache-2.0"
      [] OTHER -> "MIT"

\* FormatHeader(header, style)
FormatHeader(header, style) ==
    LET lines == Split(header)
    IN  IF style.Line = <<"/", "*">> /\ style.BlockStart = <<"/", "*">> /\ style.BlockEnd = <<"*", "/">>
        THEN Join(<<<<"/", "*">>>>
                  \o [i \in 1..Len(lines) |->
                        IF TrimSpace(lines[i]) = <<>> THEN <<" ", "*">>
                        ELSE <<" ", "*", " ">> \o lines[i]]
                  \o <<<<" ", "*", "/">>>>)
        ELSE Join([i \in 1..Len(lines) |->
                        IF TrimSpace(lines[i]) = <<>> THEN style.Line
                        ELSE style.Line \o <<" ">> \o lines[i]])

----------------------------------------------------------------------------
(* File mutators *)

\* lines[from:] of a Go slice, from 0-based
SliceFrom(lines, from) == SubSeq(lines, from + 1, Len(lines))

\* modifyFile that takes no notice of a shebang line
modifyFileNoShebang(bytes, newHeader, headerInfo) ==
    LET lines  == Split(bytes)
        header == Split(newHeader)
        rest   == IF headerInfo.EndLine + 1 < Len(lines)
                  THEN SliceFrom(lines, headerInfo.EndLine + 1) ELSE <<>>
    IN  IF headerInfo.HasHeader \/ headerInfo.HasThirdPartyCopyright
        THEN Join(header \o <<<<>>>> \o rest)
        ELSE Join(header \o <<<<>>>> \o lines)

\* modifyFile that puts no blank line after an inserted header
modifyFileNoBlank(bytes, newHeader, headerInfo) ==
    LET lines  == Split(bytes)
        header == Split(newHeader)
        rest   == IF headerInfo.EndLine + 1 < Len(lines)
                  THEN SliceFrom(lines, headerInfo.EndLine + 1) ELSE <<>>
    IN  IF headerInfo.HasHeader \/ headerInfo.HasThirdPartyCopyright
        THEN IF headerInfo.HasShebang
             THEN Join(<<lines[1], <<>>>> \o header \o <<<<>>>> \o rest)
             ELSE Join(header \o <<<<>>>> \o rest)
        ELSE IF headerInfo.HasShebang
             THEN Join(<<lines[1], <<>>>> \o header
                       \o (IF Len(lines) > 1 THEN SliceFrom(lines, 1) ELSE <<>>))
             ELSE Join(header \o lines)

\* modifyFile that puts an inserted header right after the shebang line
modifyFileNoGap(bytes, newHeader, headerInfo) ==
    LET lines  == Split(bytes)
        header == Split(newHeader)
        rest   == IF headerInfo.EndLine + 1 < Len(lines)
                  THEN SliceFrom(lines, headerInfo.EndLine + 1) ELSE <<>>
    IN  IF headerInfo.HasHeader \/ headerInfo.HasThirdPartyCopyright
        THEN IF headerInfo.HasShebang
             THEN Join(<<lines[1], <<>>>> \o header \o <<<<>>>> \o rest)
             ELSE Join(header \o <<<<>>>> \o rest)
        ELSE IF headerInfo.HasShebang
             THEN Join(<<lines[1]>> \o header \o <<<<>>>>
                       \o (IF Len(lines) > 1 THEN SliceFrom(lines, 1) ELSE <<>>))
             ELSE Join(header \o <<<<>>>> \o lines)

\* modifyFile(filename, newHeader, headerInfo): the bytes written
modifyFile(bytes, newHeader, headerInfo) ==
    LET lines  == Split(bytes)
        header == Split(newHeader)
        rest   == IF headerInfo.EndLine + 1 < Len(lines)
                  THEN SliceFrom(lines, headerInfo.EndLine + 1) ELSE <<>>
    IN  IF headerInfo.HasHeader \/ headerInfo.HasThirdPartyCopyright
        THEN IF headerInfo.HasShebang
             THEN Join(<<lines[1], <<>>>> \o header \o <<<<>>>> \o rest)
             ELSE Join(header \o <<<<>>>> \o rest)
        ELSE IF headerInfo.HasShebang
             THEN Join(<<lines[1], <<>>>> \o header \o <<<<>>>>
                       \o (IF Len(lines) > 1 THEN SliceFrom(lines, 1) ELSE <<>>))
             ELSE Join(header \o <<<<>>>> \o lines)

\* as skipBlank, but no blank line is skipped
skipBlankNone(lines, skipIndex) == skipIndex

\* the blank lines RemoveHeader skips after the header, from 0-based skipIndex
RECURSIVE skipBlank(_, _)
skipBlank(lines, skipIndex) ==
    IF skipIndex < Len(lines) /\ TrimSpace(lines[skipIndex + 1]) = <<>>
    THEN skipBlank(lines, skipIndex + 1)
    ELSE skipIndex

\* lines[skipIndex:] when there is any
afterHeader(lines, skipIndex) ==
    IF skipIndex < Len(lines) THEN SliceFrom(lines, skipIndex) ELSE <<>>

\* what RemoveHeader writes for the lines and the HeaderInfo it has read
removeLines(bytes, lines, headerInfo) ==
    IF ~headerInfo.HasHeader THEN bytes
    ELSE IF headerInfo.HasShebang
    THEN Join(<<lines[1]>> \o afterHeader(lines, skipBlank(lines, headerInfo.EndLine + 1)))
    ELSE Join(afterHeader(lines, skipBlank(lines, headerInfo.EndLine + 1)))

\* RemoveHeader(filename): the bytes of the file afterwards
RemoveHeader(bytes) == removeLines(bytes, Split(bytes), DetectExistingHeader(bytes))

\* headerText of CanRemoveHeader: the lines start..end joined
headerTextOf(lines, headerInfo) ==
    IF headerInfo.StartLine < Len(lines) /\ headerInfo.EndLine < Len(lines)
    THEN Join(SubSeq(lines, headerInfo.StartLine + 1, headerInfo.EndLine + 1))
    ELSE <<>>

\* the checks CanRemoveHeader makes on headerText
ownsHeader(headerText, cfg) ==
    LET hasSPDX     == Contains(ToLower(headerText), <<"s", "p", "d", "x", "-", "l", "i", "c", "e", "n", "s", "e", "-", "i", "d", "e", "n", "t", "i", "f", "i", "e", "r">>)
        hasUserName == Contains(headerText, cfg.FullName)
        hasOrgName  == Contains(headerText, cfg.Organization)
    IN  IF ~hasSPDX THEN FALSE ELSE hasUserName \/ hasOrgName

\* CanRemoveHeader for the lines and the HeaderInfo it has read
canRemove(lines, headerInfo, cfg) ==
    IF ~headerInfo.HasHeader THEN FALSE
    ELSE ownsHeader(headerTextOf(lines, headerInfo), cfg)

\* CanRemoveHeader without the ownership check
CanRemoveHeaderAnyOwner(bytes, cfg) ==
    /\ DetectExistingHeader(bytes).HasHeader
    /\ Contains(ToLower(headerTextOf(Split(bytes), DetectExistingHeader(bytes))),
                <<"s", "p", "d", "x", "-", "l", "i", "c", "e", "n", "s", "e", "-", "i", "d", "e", "n", "t", "i", "f", "i", "e", "r">>)

\* CanRemoveHeader(filename, config)
CanRemoveHeader(bytes, cfg) ==
    canRemove(Split(bytes), DetectExistingHeader(bytes), cfg)

----------------------------------------------------------------------------
(* ProcessFile *)

ProcessResult(action, reason, modified) ==
    [Action |-> action, Reason |-> reason, Modified |-> modified]

\* processRemoveMode when CanRemoveHeader said no
notRemoved(bytes, headerInfo) ==
    IF ~headerInfo.HasHeader
    THEN <<ProcessResult("SKIP", "No header found", FALSE), bytes, headerInfo>>
    ELSE <<ProcessResult("SKIP", "Header ownership mismatch (safety check)", FALSE),
           bytes, headerInfo>>

\* processRemoveMode(filename, config): <<result, bytes afterwards, HeaderInfo>>
processRemoveMode(bytes, fileExt, cfg) ==
    IF ~ShouldProcessFile(fileExt, bytes)
    THEN <<ProcessResult("SKIP", "Excluded file type", FALSE), bytes, NoHeaderInfo>>
    ELSE IF ~CanRemoveHeader(bytes, cfg)
    THEN notRemoved(bytes, DetectExistingHeader(bytes))
    ELSE <<ProcessResult("REMOVE", "Removed header (ownership match)", TRUE),
           RemoveHeader(bytes), DetectExistingHeader(bytes)>>

\* ProcessFile from the detection of the existing header on
writeHeader(bytes, cfg, forceReplace, commentStyle, headerInfo) ==
    LET action == IF headerInfo.HasHeader THEN "REPLACE"
                  ELSE IF headerInfo.HasThirdPartyCopyright THEN "REPLACE"
                  ELSE "ADD"
        reason == IF headerInfo.HasThirdPartyCopyright
                  THEN "Replaced third-party copyright with " \o GetLicenseType(cfg) \o " header"
                  ELSE "Added " \o GetLicenseType(cfg) \o " header"
    IN  IF headerInfo.HasHeader /\ ~forceReplace
        THEN <<ProcessResult("SKIP", "Header already exists", FALSE), bytes, headerInfo>>
        ELSE IF headerInfo.HasThirdPartyCopyright /\ ~forceReplace
        THEN <<ProcessResult("SKIP", "Third-party copyright found (use --force to overwrite)",
                             FALSE), bytes, headerInfo>>
        ELSE <<ProcessResult(action, reason, TRUE),
               modifyFile(bytes, FormatHeader(GenerateHeader(cfg), commentStyle), headerInfo),
               headerInfo>>

\* ProcessFile(filename, config, forceReplace, removeMode, verbose):
\* <<result, bytes afterwards, HeaderInfo>>
ProcessFile(bytes, fileExt, cfg, forceReplace, removeMode) ==
    IF removeMode THEN processRemoveMode(bytes, fileExt, cfg)
    ELSE IF ~ShouldProcessFile(fileExt, bytes)
    THEN <<ProcessResult("SKIP", "Excluded file type", FALSE), bytes, NoHeaderInfo>>
    ELSE IF ~GetCommentStyle(fileExt, bytes)[2]
    THEN <<ProcessResult("SKIP", "No comment style available", FALSE), bytes, NoHeaderInfo>>
    ELSE writeHeader(bytes, cfg, forceReplace, GetCommentStyle(fileExt, bytes)[1],
                     DetectExistingHeader(bytes))

----------------------------------------------------------------------------
(* Inputs *)

MaxLen   == 3    \* longest file, in lines, built from every choice of Vocab lines
MaxCalls == 2    \* ProcessFile calls made on one file

shebangLine   == <<"#", "!", "/", "b", "i", "n", "/", "s", "h">>
codeLine      == <<"x", " ", "=", " ", "1">>
blankLine     == <<>>
copyrightLine == <<"/", "/", " ", "C", "o", "p", "y", "r", "i", "g", "h", "t", " ", "2", "0", "2", "0", " ", "A", "c", "m", "e">>
markerLine    == <<"/", "/", " ", "S", "P", "D", "X", "-", "L", "i", "c", "e", "n", "s", "e", "-", "I", "d", "e", "n", "t", "i", "f", "i", "e", "r", ":", " ", "M", "I", "T">>
rawMarkerLine == <<"S", "P", "D", "X", "-", "L", "i", "c", "e", "n", "s", "e", "-", "I", "d", "e", "n", "t", "i", "f", "i", "e", "r", ":", " ", "M", "I", "T">>

Vocab == <<shebangLine, codeLine, blankLine, copyrightLine, markerLine, rawMarkerLine>>

\* every sequence of 1..MaxLen Vocab lines
LineLists == UNION {[1..n -> 1..Len(Vocab)] : n \in 1..MaxLen}

VocabFiles == {Join([i \in DOMAIN f |-> Vocab[f[i]]]) : f \in LineLists}

\* k code lines
Pad(k) == [i \in 1..k |-> codeLine]

\* files the Vocab product does not hold: the marker below line 2, at and past
\* the end of the scanned window; a foreign notice above an owned header; the
\* marker on the shebang line; "copyright" on the shebang line; CRLF line
\* ends; a foreign notice on the third line after a shebang; the empty file;
\* a file with NUL bytes
ScenarioFiles ==
    {Join(<<copyrightLine>> \o Pad(k) \o <<markerLine, codeLine>>) :
        k \in {2, maxLinesToCheck - 2, maxLinesToCheck - 1}}
    \cup {Join(<<copyrightLine, blankLine, <<"/", "/", " ", "C", "o", "p", "y", "r", "i", "g", "h", "t", " ", "2", "0", "2", "5", " ", "A", "l">>, markerLine,
                 blankLine, blankLine, codeLine, blankLine>>),
          Join(<<shebangLine, codeLine, <<"#", " ", "C", "o", "p", "y", "r", "i", "g", "h", "t", " ", "2", "0", "2", "5", " ", "A", "l">>, <<"#">>,
                 <<"#", " ", "s", "p", "d", "x", "-", "l", "i", "c", "e", "n", "s", "e", "-", "i", "d", "e", "n", "t", "i", "f", "i", "e", "r", ":", " ", "m", "i", "t">>, <<"#", " ", "S", "e", "e", " ", "L", "I", "C", "E", "N", "S", "E">>, blankLine,
                 codeLine>>),
          Join(<<<<"#", "!", "/", "b", "i", "n", "/", "s", "h", " ", "#", " ", "S", "P", "D", "X", "-", "L", "i", "c", "e", "n", "s", "e", "-", "I", "d", "e", "n", "t", "i", "f", "i", "e", "r", ":", " ", "M", "I", "T">>, codeLine>>),
          Join(<<<<"#", "!", "/", "u", "s", "r", "/", "b", "i", "n", "/", "e", "n", "v", " ", "p", "y", "t", "h", "o", "n", "3", " ", "-", "-", " ", "n", "o", " ", "c", "o", "p", "y", "r", "i", "g", "h", "t", " ", "i", "s", " ", "c", "l", "a", "i", "m", "e", "d">>, codeLine>>),
          Join(<<<<" ", "#", "!", "/", "b", "i", "n", "/", "s", "h", "\r">>, <<"c", "o", "p", "y", "r", "i", "g", "h", "t", " ", "a", "l", "\r">>, codeLine>>),
          Join(<<shebangLine, codeLine, codeLine, copyrightLine>>)}

Files == VocabFiles \cup ScenarioFiles

Config(name, role, dept, org) ==
    [FullName |-> name, DefaultRole |-> role, DeptOrLab |-> dept, Organization |-> org]

Configs ==
    {Config(<<"A", "l">>, "Student", <<"L", "a", "b">>, <<"A", "c", "m", "e">>),
     Config(<<"B", "o">>, "Faculty", <<"U", "I", "T">>, <<"O", "S", "U">>)}

\* extensions tried with every file
MainExts == {<<".", "g", "o">>}

\* one extension of every comment style, an upper-case one, an excluded and an
\* unknown one; tried with SmallFiles, which hold the empty file and a binary one
AllExts ==
    {CHOOSE e \in styleGroups[g][2] : TRUE : g \in 1..Len(styleGroups)}
    \cup {<<".", "P", "Y">>, <<".", "m", "d">>, <<".", "x", "y", "z">>}

SmallFiles ==
    {codeLine, Join(<<shebangLine, codeLine>>), Join(<<codeLine, blankLine>>),
     Join(<<copyrightLine, codeLine>>), Join(<<blankLine, codeLine>>),
     Join(<<copyrightLine, markerLine, codeLine>>),
     <<>>, <<"E", "L", "F", NUL, SOH>>}

NoResult == ProcessResult("NONE", "", FALSE)

\* no walk is under way: the walker's variables while one file is looked at
NoWalk ==
    /\ tree = <<>> /\ faults = <<>> /\ crawler = <<>>
    /\ pc = <<>> /\ todo = <<>> /\ res = <<>> /\ sem = <<>>
    /\ stats = <<>> /\ logMutex = <<>> /\ disk = <<>>
    /\ history = <<>> /\ listed = {} /\ ret = "running"

\* no hook operation is under way: the hook variables while files are processed
NoHook ==
    /\ gitHooks = <<>> /\ hookOp = "none" /\ hookErr = "nil"
    /\ prompted = FALSE /\ userHook = <<>> /\ hookCalls = 0

Init ==
    /\ \/ content \in Files /\ ext \in MainExts
       \/ content \in SmallFiles /\ ext \in AllExts
    /\ config \in Configs
    /\ prev = content
    /\ op = "none"
    /\ result = NoResult
    /\ info = NoHeaderInfo
    /\ trail = <<>>
    /\ NoWalk
    /\ NoHook

\* one ProcessFile call on the file, and what it leaves behind
Call(name, forceReplace, removeMode) ==
    /\ \E r \in {ProcessFile(content, ext, config, forceReplace, removeMode)} :
           /\ result' = r[1]
           /\ content' = r[2]
           /\ info' = r[3]
    /\ prev' = content
    /\ op' = name
    /\ trail' = Append(trail, [op |-> name, action |-> result'.Action])
    /\ UNCHANGED <<ext, config>>
    /\ UNCHANGED <<walkVars, hookVars>>

\* licer
ProcessNormal ==
    /\ Len(trail) < MaxCalls
    /\ Call("normal", FALSE, FALSE)

\* licer --force
ProcessForce ==
    /\ Len(trail) < MaxCalls
    /\ Call("force", TRUE, FALSE)

\* licer --remove
ProcessRemove ==
    /\ Len(trail) < MaxCalls
    /\ Call("remove", FALSE, TRUE)

Next == ProcessNormal \/ ProcessForce \/ ProcessRemove

Spec == Init /\ [][Next]_vars

----------------------------------------------------------------------------
(* Properties *)

marker == <<"s", "p", "d", "x", "-", "l", "i", "c", "e", "n", "s", "e", "-", "i", "d", "e", "n", "t", "i", "f", "i", "e", "r">>

Min(a, b) == IF a < b THEN a ELSE b

\* the formatted header the last call worked with, as lines
HeaderLines == Split(FormatHeader(GenerateHeader(config), GetCommentStyle(ext, prev)[1]))

\* 0-based numbers of the lines of bytes inside the span of d
SpanOf(bytes, d) ==
    {i \in 0..(Len(Split(bytes)) - 1) : d.StartLine <= i /\ i <= d.EndLine}

\* bytes holds a managed header whose span has the marker on one of its lines
\* and the full name or the organization of cfg, as written, on one of them
OwnedSpan(bytes, cfg) ==
    LET d  == DetectExistingHeader(bytes)
        ls == Split(bytes)
    IN  /\ d.HasHeader
        /\ \E i \in SpanOf(bytes, d) : Contains(ToLower(ls[i + 1]), marker)
        /\ \E i \in SpanOf(bytes, d) :
              Contains(ls[i + 1], cfg.FullName) \/ Contains(ls[i + 1], cfg.Organization)

\* "copyright" on one of the first three lines and the marker on no line
ForeignNotice(bytes) ==
    LET ls == Split(bytes)
    IN  /\ \E k \in 1..Min(3, Len(ls)) : Contains(ToLower(ls[k]), <<"c", "o", "p", "y", "r", "i", "g", "h", "t">>)
        /\ \A k \in 1..Len(ls) : ~Contains(ToLower(ls[k]), marker)

\* C1: DetectExistingHeader never reports a managed header and a third-party
\* copyright for the same file.
C1_MutuallyExclusive ==
    LET d == DetectExistingHeader(content)
    IN  ~(d.HasHeader /\ d.HasThirdPartyCopyright)

\* C2: CanRemoveHeader is true exactly when the file has a managed header whose
\* span holds the marker and the configured full name or organization as
\* written; when it is false, remove mode skips the file and leaves it as it is.
C2_OwnershipGate ==
    op = "remove" =>
        LET allowed == CanRemoveHeader(prev, config)
        IN  /\ allowed <=> OwnedSpan(prev, config)
            /\ ~allowed =>
                  (result.Action = "SKIP" /\ ~result.Modified /\ content = prev)
            /\ result.Action = "REMOVE" => allowed

\* a header with the marker that belongs to somebody else was refused
C2_Witness ==
    /\ op = "remove"
    /\ result.Reason = "Header ownership mismatch (safety check)"
    /\ \E i \in SpanOf(prev, info) : Contains(ToLower(Split(prev)[i + 1]), marker)
    /\ content = prev

\* C3: RemoveHeader deletes the lines StartLine..EndLine and the blank lines
\* right after them, and keeps every other line, those before StartLine too.
C3_RemoveKeepsTheRest ==
    (op = "remove" /\ result.Action = "REMOVE") =>
        LET ls == Split(prev)
            k  == skipBlank(ls, info.EndLine + 1)
        IN  content = Join(SubSeq(ls, 1, info.StartLine) \o SubSeq(ls, k + 1, Len(ls)))

\* C4: a first line that starts with "#!" is the first line of whatever an
\* insert, a forced replace or a remove writes.
C4_ShebangPreserved ==
    (result.Modified /\ HasPrefix(Split(prev)[1], <<"#", "!">>)) =>
        Split(content)[1] = Split(prev)[1]

\* a forced replace and then a remove, both on a file with a shebang line
C4_Witness ==
    /\ Len(trail) = 2
    /\ trail[1] = [op |-> "force", action |-> "REPLACE"]
    /\ trail[2] = [op |-> "remove", action |-> "REMOVE"]
    /\ HasPrefix(Split(prev)[1], <<"#", "!">>)
    /\ Split(content)[1] = <<"#", "!", "/", "b", "i", "n", "/", "s", "h">>

\* C5: once a call without force has added a header, the file classifies as
\* having a header, and the next call without force skips it with "Header
\* already exists" and leaves every byte as it is.
C5_Idempotent ==
    \A n \in 1..Len(trail) :
        trail[n] = [op |-> "normal", action |-> "ADD"] =>
            /\ n = Len(trail) => DetectExistingHeader(content).HasHeader
            /\ (n + 1 = Len(trail) /\ op = "normal") =>
                  /\ result = ProcessResult("SKIP", "Header already exists", FALSE)
                  /\ info.HasHeader
                  /\ content = prev

\* the second run on a script with a shebang line that the first run added a
\* header to
C5_Witness ==
    /\ trail = <<[op |-> "normal", action |-> "ADD"], [op |-> "normal", action |-> "SKIP"]>>
    /\ info.HasShebang
    /\ result.Reason = "Header already exists"
    /\ content = prev

\* C6: a file with "copyright" in its first three lines and no marker is
\* classified as third-party; without force it is skipped and not written, and
\* with force it is replaced.
C6_ForeignHeaderProtected ==
    (op # "none" /\ ForeignNotice(prev)) =>
        /\ DetectExistingHeader(prev).HasThirdPartyCopyright
        /\ op = "normal" =>
              (result.Action = "SKIP" /\ ~result.Modified /\ content = prev)
        /\ (op = "force" /\ ShouldProcessFile(ext, prev)) =>
              (result.Action = "REPLACE" /\ result.Modified /\ info.HasThirdPartyCopyright)
        /\ result.Modified => op = "force"

\* a foreign notice skipped without force and then replaced with force
C6_Witness ==
    /\ trail = <<[op |-> "normal", action |-> "SKIP"], [op |-> "force", action |-> "REPLACE"]>>
    /\ ForeignNotice(prev)
    /\ info.HasThirdPartyCopyright
    /\ content # prev

\* C7: after a header of N lines has been inserted, DetectExistingHeader
\* reports exactly its N lines as the span.
C7_SpanExact ==
    result.Action = "ADD" =>
        LET first == IF info.HasShebang THEN 2 ELSE 0
            d     == DetectExistingHeader(content)
        IN  /\ d.StartLine = first
            /\ d.EndLine = first + Len(HeaderLines) - 1

\* C8: a reported span is well formed: 0 <= StartLine <= EndLine.
C8_SpanOrdered ==
    LET d == DetectExistingHeader(content)
    IN  (d.HasHeader \/ d.HasThirdPartyCopyright) =>
            (0 <= d.StartLine /\ d.StartLine <= d.EndLine)

\* C9: the span of a file with a shebang line starts after line 0.
C9_SpanExcludesShebang ==
    LET d == DetectExistingHeader(content)
    IN  (d.HasShebang /\ (d.HasHeader \/ d.HasThirdPartyCopyright)) => d.StartLine >= 1

\* C10: an insert into a file with no shebang line, no header and no
\* third-party block writes the header lines, one blank line and then the
\* original lines, all of them and in order.
C10_FreshInsert ==
    (result.Action = "ADD" /\ ~info.HasShebang) =>
        LET old == Split(prev)
            new == Split(content)
            N   == Len(HeaderLines)
        IN  /\ ~info.HasHeader /\ ~info.HasThirdPartyCopyright
            /\ Len(new) = N + 1 + Len(old)
            /\ \A i \in 1..N : new[i] = HeaderLines[i]
            /\ new[N + 1] = <<>>
            /\ \A j \in 1..Len(old) : new[N + 1 + j] = old[j]

\* a header inserted above a file that ends with a newline
C10_Witness ==
    /\ result.Action = "ADD"
    /\ ~info.HasShebang
    /\ prev = Join(<<codeLine, blankLine>>)
    /\ Split(content)[Len(Split(content))] = <<>>

\* C11 as stated: an insert into a file with a shebang line puts the first
\* header line on output line 1, right after the shebang line, then one blank
\* line, then the original lines 1.. unchanged.
C11_HeaderOnLineOne ==
    (result.Action = "ADD" /\ info.HasShebang) =>
        LET old == Split(prev)
        IN  content = Join(<<old[1]>> \o HeaderLines \o <<<<>>>> \o SliceFrom(old, 1))

\* C11, amended: an insert into a file with a shebang line writes the shebang
\* line, one blank line, the header lines from output line 2 on, one blank
\* line, and then the original lines 1.. unchanged.
C11_ShebangInsert ==
    (result.Action = "ADD" /\ info.HasShebang) =>
        LET old == Split(prev)
            new == Split(content)
            N   == Len(HeaderLines)
        IN  /\ Len(new) = N + 2 + Len(old)
            /\ new[1] = old[1]
            /\ new[2] = <<>>
            /\ \A i \in 1..N : new[2 + i] = HeaderLines[i]
            /\ new[N + 3] = <<>>
            /\ \A j \in 2..Len(old) : new[N + 2 + j] = old[j]

\* a header inserted into a script of a shebang line and one line of code
C11_Witness ==
    /\ result.Action = "ADD"
    /\ info.HasShebang
    /\ prev = Join(<<shebangLine, codeLine>>)
    /\ Split(content)[Len(Split(content))] = codeLine

\* 0-based numbers i..j of ls, as a sequence
LinesOf(ls, i, j) == SubSeq(ls, i + 1, j + 1)

\* C12: a forced replace keeps every original line before StartLine at the
\* head of the output and every original line after EndLine at its end, with
\* the new header and one blank line between them.
C12_ReplaceFrame ==
    result.Action = "REPLACE" =>
        LET old    == Split(prev)
            new    == Split(content)
            before == LinesOf(old, 0, info.StartLine - 1)
            after  == LinesOf(old, info.EndLine + 1, Len(old) - 1)
        IN  /\ Len(new) >= Len(before) + Len(HeaderLines) + 1 + Len(after)
            /\ SubSeq(new, 1, Len(before)) = before
            /\ SubSeq(new, Len(new) - Len(after) + 1, Len(new)) = after

\* C13: in every mode ProcessFile skips, and leaves as it is, a file whose
\* lower-cased extension is in the exclusion table or is not empty and has no
\* comment style, and a file without extension that the content sniff does not
\* take for text.
C13_ExcludedNeverWritten ==
    LET e == ToLower(ext)
    IN  (/\ op # "none"
         /\ \/ e \in excludedExtensions
            \/ (e # <<>> /\ e \notin DOMAIN commentStyles)
            \/ (e = <<>> /\ ~isTextFile(prev))) =>
            /\ result = ProcessResult("SKIP", "Excluded file type", FALSE)
            /\ content = prev

\* a file with an owned header and an excluded extension, refused in normal
\* mode and then in remove mode
C13_Witness ==
    /\ trail = <<[op |-> "normal", action |-> "SKIP"], [op |-> "remove", action |-> "SKIP"]>>
    /\ ToLower(ext) \in excludedExtensions
    /\ CanRemoveHeader(content, config)
    /\ result.Reason = "Excluded file type"


----------------------------------------------------------------------------
(* The parallel walker: Crawler.ProcessRepository and                      *)
(* processDirectoryRecursive.  A directory is its path from the repository *)
(* root, a sequence of names; every directory has one task, the call of    *)
(* processDirectoryRecursive on it.                                        *)

\* capacity of the semaphore channel each directory level makes
semaphoreSize == 10

\* filepath.Dir and filepath.Base of a path
parent(p) == SubSeq(p, 1, Len(p) - 1)
Base(p) == p[Len(p)]

\* as isGitDir, but no directory is taken for .git
isGitDirNever(dir) == FALSE

\* the check that opens processDirectoryRecursive
isGitDir(dir) == Base(dir) = ".git"

\* some directory on the path is named .git
underGit(p) == \E i \in 1..Len(p) : p[i] = ".git"

\* as regularFiles, but with the files of the whole subtree of dir
regularFilesBelow(t, dir) ==
    LET here == SelectSeq(t.files, LAMBDA f : Len(f.path) > Len(dir)
                                              /\ SubSeq(f.path, 1, Len(dir)) = dir)
    IN  [i \in 1..Len(here) |-> here[i].path]

\* the entries of dir that are no directories, in os.ReadDir's order
regularFiles(t, dir) ==
    LET here == SelectSeq(t.files, LAMBDA f : parent(f.path) = dir)
    IN  [i \in 1..Len(here) |-> here[i].path]

\* the entries of dir the second loop starts a goroutine for
subdirsToLaunch(t, dir) ==
    {d \in t.dirs : Len(d) = Len(dir) + 1 /\ parent(d) = dir /\ Base(d) # ".git"}

\* as waitGroupZero, but wg.Wait never blocks
waitGroupNoWait(p, kids) == TRUE

\* the WaitGroup's counter is zero: every goroutine started has run its
\* deferred wg.Done
waitGroupZero(p, kids) == \A k \in kids : p[k] = "done"

\* as gateFree, but the channel takes no token
gateBlocked(tokens) == FALSE

\* as gateFree, but the channel never fills
gateAlwaysFree(tokens) == TRUE

\* semaphore <- struct{}{} can proceed
gateFree(tokens) == tokens < semaphoreSize

\* as readDirResult, but a failed os.ReadDir is returned as an error
readDirResultErr(failed) == IF failed THEN "err" ELSE "nil"

\* what processDirectoryRecursive returns when os.ReadDir has or has not failed
readDirResult(failed) == "nil"

ProcessingStats(processed, modified, skipped) ==
    [FilesProcessed |-> processed, FilesModified |-> modified, FilesSkipped |-> skipped]

\* as updateStats, but a SKIP result is not counted
updateStatsNoSkip(s, r) ==
    IF r.Modified
    THEN [s EXCEPT !.FilesModified = @ + 1]
    ELSE s

\* the two counter updates that follow the FilesProcessed one
updateStats(s, r) ==
    IF r.Modified
    THEN [s EXCEPT !.FilesModified = @ + 1]
    ELSE IF r.Action = "SKIP"
         THEN [s EXCEPT !.FilesSkipped = @ + 1]
         ELSE s

\* Reason of a result that reports a failed read or write; the text of the
\* operating system's error is "permission denied"
ErrorReasons ==
    {"Error reading file: permission denied",
     "Error checking header: permission denied",
     "Error modifying file: permission denied",
     "Error removing header: permission denied"}

\* the call's outcome when the file cannot be opened for writing: modifyFile
\* and RemoveHeader fail in os.WriteFile and the file stays as it was
writeDenied(r, bytes, removeMode) ==
    IF r[1].Modified
    THEN <<ProcessResult("SKIP",
                         IF removeMode THEN "Error removing header: permission denied"
                                       ELSE "Error modifying file: permission denied",
                         FALSE),
           bytes, r[3]>>
    ELSE r

\* the call's outcome when the file cannot be opened for reading: isTextFile
\* answers false, CanRemoveHeader and DetectExistingHeader return the error
readDenied(bytes, fileExt, removeMode) ==
    IF ~ShouldProcessFile(fileExt, <<>>)
    THEN <<ProcessResult("SKIP", "Excluded file type", FALSE), bytes, NoHeaderInfo>>
    ELSE <<ProcessResult("SKIP",
                         IF removeMode THEN "Error checking header: permission denied"
                                       ELSE "Error reading file: permission denied",
                         FALSE),
           bytes, NoHeaderInfo>>

\* ProcessFile on a file of the disk: <<result, bytes afterwards, HeaderInfo>>
ProcessFileIO(bytes, fileExt, cfg, forceReplace, removeMode, canRead, canWrite) ==
    IF ~canRead
    THEN readDenied(bytes, fileExt, removeMode)
    ELSE IF canWrite
         THEN ProcessFile(bytes, fileExt, cfg, forceReplace, removeMode)
         ELSE writeDenied(ProcessFile(bytes, fileExt, cfg, forceReplace, removeMode),
                          bytes, removeMode)

----------------------------------------------------------------------------
(* Repositories the walker is run on *)

File(path, bytes, fileExt) == [path |-> path, bytes |-> bytes, ext |-> fileExt]

repoRoot == <<"repo">>

\* a file that carries the header licer writes for walkConfig
ownedGoFile ==
    Join(<<<<"/", "/", " ", "C", "o", "p", "y", "r", "i", "g", "h", "t", " ", "(", "c", ")", " ", "2", "0", "2", "5", " ", "A", "l">>, <<"/", "/">>, <<"/", "/", " ", "S", "P", "D", "X", "-", "L", "i", "c", "e", "n", "s", "e", "-", "I", "d", "e", "n", "t", "i", "f", "i", "e", "r", ":", " ", "M", "I", "T">>,
           <<"/", "/", " ", "S", "e", "e", " ", "L", "I", "C", "E", "N", "S", "E", " ", "f", "i", "l", "e", " ", "f", "o", "r", " ", "f", "u", "l", "l", " ", "l", "i", "c", "e", "n", "s", "e", " ", "t", "e", "x", "t", ".">>, <<>>, codeLine>>)

mainGo  == <<"repo", "main.go">>
aGo     == <<"repo", "a", "a.go">>
notesMd == <<"repo", "a", "b", "notes.md">>
runFile == <<"repo", "c", "run">>
dirA    == <<"repo", "a">>
dirB    == <<"repo", "a", "b">>
dirC    == <<"repo", "c">>

\* sources at three depths, two .git directories, an excluded file and a
\* script without extension
mixedTree ==
    [dirs  |-> {repoRoot, <<"repo", ".git">>, dirA, <<"repo", "a", ".git">>, dirB, dirC},
     files |-> <<File(<<"repo", ".git", "config">>, codeLine, <<>>),
                 File(<<"repo", "a", ".git", "HEAD">>, codeLine, <<>>),
                 File(aGo, ownedGoFile, <<".", "g", "o">>),
                 File(notesMd, codeLine, <<".", "m", "d">>),
                 File(runFile, Join(<<shebangLine, codeLine>>), <<>>),
                 File(mainGo, codeLine, <<".", "g", "o">>)>>]

\* the mixed tree with every file a Markdown file
notesTree ==
    [dirs  |-> mixedTree.dirs,
     files |-> [i \in 1..Len(mixedTree.files) |->
                   File(mixedTree.files[i].path, codeLine, <<".", "m", "d">>)]]

\* a root with one empty subdirectory more than its semaphore has room for
wideTree ==
    [dirs  |-> {repoRoot} \cup {<<"repo", ToString(i)>> : i \in 1..(semaphoreSize + 1)},
     files |-> <<>>]

\* the wide tree with a directory below one of the subdirectories
nestedTree ==
    [dirs  |-> wideTree.dirs \cup {<<"repo", "1", "1">>},
     files |-> <<>>]

\* a walk started on a .git directory itself
gitTree ==
    [dirs  |-> {<<".git">>, <<".git", "hooks">>},
     files |-> <<File(<<".git", "config">>, codeLine, <<>>)>>]

Faults(dirs, unreadable, unwritable) ==
    [dirs |-> dirs, unreadable |-> unreadable, unwritable |-> unwritable]

NoFaults == Faults({}, {}, {})

\* one unreadable directory, or one file that cannot be read or written
mixedFaults ==
    {NoFaults, Faults({dirC}, {}, {}), Faults({dirA}, {}, {}), Faults({repoRoot}, {}, {}),
     Faults({}, {runFile}, {}), Faults({}, {mainGo}, {}), Faults({}, {}, {mainGo}),
     Faults({}, {}, {aGo})}

Crawler(forceReplace, removeMode, verbose) ==
    [forceReplace |-> forceReplace, removeMode |-> removeMode, verbose |-> verbose]

\* licer, licer --force and licer --remove, each with and without --verbose
Crawlers ==
    {Crawler(FALSE, FALSE, v) : v \in BOOLEAN}
    \cup {Crawler(TRUE, FALSE, v) : v \in BOOLEAN}
    \cup {Crawler(FALSE, TRUE, v) : v \in BOOLEAN}

walkConfig == Config(<<"A", "l">>, "Student", <<"L", "a", "b">>, <<"A", "c", "m", "e">>)

\* the root of a tree: its shortest path
rootOf(t) == CHOOSE d \in t.dirs : \A e \in t.dirs : Len(d) <= Len(e)

filePaths(t) == {t.files[i].path : i \in 1..Len(t.files)}

fileAt(t, p) == t.files[CHOOSE i \in 1..Len(t.files) : t.files[i].path = p]

\* no file is looked at on its own while the walker runs
NoFile ==
    /\ content = <<>> /\ ext = <<>> /\ prev = <<>> /\ op = "none"
    /\ result = NoResult /\ info = NoHeaderInfo /\ trail = <<>>

\* the state in which ProcessRepository calls processDirectoryRecursive on
\* the root: nothing read, no counter touched, the log lock free
NewCrawler ==
    /\ pc = [d \in tree.dirs |-> IF d = rootOf(tree) THEN "enter" ELSE "none"]
    /\ todo = [d \in tree.dirs |-> <<>>]
    /\ res = [d \in tree.dirs |-> NoResult]
    /\ sem = [d \in tree.dirs |-> 0]
    /\ stats = ProcessingStats(0, 0, 0)
    /\ logMutex = <<>>
    /\ disk = [p \in filePaths(tree) |-> fileAt(tree, p).bytes]
    /\ history = [p \in filePaths(tree) |-> <<>>]
    /\ listed = {}
    /\ ret = "running"

WalkerInit ==
    /\ NoFile
    /\ NoHook
    /\ config = walkConfig
    /\ \/ tree = mixedTree /\ faults \in mixedFaults /\ crawler \in Crawlers
       \/ tree = wideTree /\ faults = NoFaults /\ crawler = Crawler(FALSE, FALSE, FALSE)
       \/ tree = gitTree /\ faults = NoFaults /\ crawler = Crawler(FALSE, FALSE, TRUE)
    /\ NewCrawler

----------------------------------------------------------------------------
(* The steps of a directory's task *)

isRoot(d) == d = rootOf(tree)

\* the deferred <-semaphore of the goroutine of subdirectory d
release(s, d) == [s EXCEPT ![parent(d)] = @ - 1]

\* the task of d returns: the deferred release gives the token back to the
\* parent's semaphore and wg.Done counts the parent's WaitGroup down; when
\* the root's call returns, ProcessRepository returns what it returned
Returns(d, value) ==
    /\ pc' = [pc EXCEPT ![d] = "done"]
    /\ sem' = IF isRoot(d) THEN sem ELSE release(sem, d)
    /\ ret' = IF isRoot(d) THEN value ELSE ret

\* the file loop is through: a goroutine is started for every subdirectory
\* but .git and the task waits for them; with none to start wg.Wait returns
\* at once
LaunchSubdirs(d) ==
    \E kids \in {subdirsToLaunch(tree, d)} :
        IF kids = {}
        THEN Returns(d, "nil")
        ELSE /\ pc' = [x \in tree.dirs |->
                          IF x \in kids THEN "queued" ELSE IF x = d THEN "wait" ELSE pc[x]]
             /\ UNCHANGED <<sem, ret>>

\* the file loop goes on to the files left, if any
NextFile(d, left) ==
    /\ todo' = [todo EXCEPT ![d] = left]
    /\ IF left # <<>>
       THEN pc' = [pc EXCEPT ![d] = "process"] /\ UNCHANGED <<sem, ret>>
       ELSE LaunchSubdirs(d)

\* semaphore <- struct{}{} in the goroutine of a subdirectory
Acquire ==
    \E d \in tree.dirs :
        /\ pc[d] = "queued"
        /\ gateFree(sem[parent(d)])
        /\ sem' = [sem EXCEPT ![parent(d)] = @ + 1]
        /\ pc' = [pc EXCEPT ![d] = "enter"]
        /\ UNCHANGED <<config, tree, faults, crawler, todo, res, stats, logMutex, disk,
                       history, listed, ret>>
        /\ UNCHANGED <<fileVars, hookVars>>

\* processDirectoryRecursive(d) up to its first file: the .git check,
\* os.ReadDir and its failure
Enter ==
    \E d \in tree.dirs :
        /\ pc[d] = "enter"
        /\ IF isGitDir(d)
           THEN Returns(d, "nil") /\ UNCHANGED <<todo, listed>>
           ELSE IF d \in faults.dirs
                THEN /\ listed' = listed \cup {d}
                     /\ IF crawler.verbose
                        THEN pc' = [pc EXCEPT ![d] = "printError"] /\ UNCHANGED <<sem, ret>>
                        ELSE Returns(d, readDirResult(TRUE))
                     /\ UNCHANGED todo
                ELSE /\ listed' = listed \cup {d}
                     /\ NextFile(d, regularFiles(tree, d))
        /\ UNCHANGED <<config, tree, faults, crawler, res, stats, logMutex, disk, history>>
        /\ UNCHANGED <<fileVars, hookVars>>

\* fmt.Printf("[ERROR] Failed to read directory ...") has written its line
ErrorPrinted ==
    \E d \in tree.dirs :
        /\ pc[d] = "printError"
        /\ Returns(d, readDirResult(TRUE))
        /\ UNCHANGED <<config, tree, faults, crawler, todo, res, stats, logMutex, disk,
                       history, listed>>
        /\ UNCHANGED <<fileVars, hookVars>>

\* ProcessFile on the next file of d returns
EndFile ==
    \E d \in tree.dirs :
        /\ pc[d] = "process"
        /\ \E p \in {Head(todo[d])} :
           \E r \in {ProcessFileIO(disk[p], fileAt(tree, p).ext, config, crawler.forceReplace,
                                   crawler.removeMode, p \notin faults.unreadable,
                                   p \notin faults.unwritable)} :
               /\ res' = [res EXCEPT ![d] = r[1]]
               /\ disk' = [disk EXCEPT ![p] = r[2]]
               /\ history' = [history EXCEPT ![p] = Append(@, r[1])]
        /\ pc' = [pc EXCEPT ![d] = "count"]
        /\ UNCHANGED <<config, tree, faults, crawler, todo, sem, stats, logMutex, listed, ret>>
        /\ UNCHANGED <<fileVars, hookVars>>

\* atomic.AddInt64(&c.stats.FilesProcessed, 1)
AddProcessed ==
    \E d \in tree.dirs :
        /\ pc[d] = "count"
        /\ stats' = [stats EXCEPT !.FilesProcessed = @ + 1]
        /\ pc' = [pc EXCEPT ![d] = "outcome"]
        /\ UNCHANGED <<config, tree, faults, crawler, todo, res, sem, logMutex, disk, history,
                       listed, ret>>
        /\ UNCHANGED <<fileVars, hookVars>>

\* the FilesModified or FilesSkipped update; without --verbose the loop
\* goes on
AddOutcome ==
    \E d \in tree.dirs :
        /\ pc[d] = "outcome"
        /\ stats' = updateStats(stats, res[d])
        /\ IF crawler.verbose
           THEN pc' = [pc EXCEPT ![d] = "log"] /\ UNCHANGED <<todo, sem, ret>>
           ELSE NextFile(d, Tail(todo[d]))
        /\ UNCHANGED <<config, tree, faults, crawler, res, logMutex, disk, history, listed>>
        /\ UNCHANGED <<fileVars, hookVars>>

\* logMutex.Lock() in logResultSafe
LockLog ==
    \E d \in tree.dirs :
        /\ pc[d] = "log"
        /\ logMutex = <<>>
        /\ logMutex' = d
        /\ pc' = [pc EXCEPT ![d] = "printResult"]
        /\ UNCHANGED <<config, tree, faults, crawler, todo, res, sem, stats, disk, history,
                       listed, ret>>
        /\ UNCHANGED <<fileVars, hookVars>>

\* LogResult has written its line; the deferred logMutex.Unlock()
UnlockLog ==
    \E d \in tree.dirs :
        /\ pc[d] = "printResult"
        /\ logMutex' = <<>>
        /\ NextFile(d, Tail(todo[d]))
        /\ UNCHANGED <<config, tree, faults, crawler, res, stats, disk, history, listed>>
        /\ UNCHANGED <<fileVars, hookVars>>

\* wg.Wait() returns when every goroutine started has called wg.Done
Wait ==
    \E d \in tree.dirs :
        /\ pc[d] = "wait"
        /\ waitGroupZero(pc, subdirsToLaunch(tree, d))
        /\ Returns(d, "nil")
        /\ UNCHANGED <<config, tree, faults, crawler, todo, res, stats, logMutex, disk,
                       history, listed>>
        /\ UNCHANGED <<fileVars, hookVars>>

WalkerNext ==
    \/ Acquire
    \/ Enter
    \/ ErrorPrinted
    \/ EndFile
    \/ AddProcessed
    \/ AddOutcome
    \/ LockLog
    \/ UnlockLog
    \/ Wait

WalkerSpec == WalkerInit /\ [][WalkerNext]_vars

\* the runs in which termination is checked: the nested tree in place of
\* the wide one, and the mixed tree with every file of an excluded type, for
\* what ProcessFile does with a file has no part in the progress of the walk
WalkerFairInit ==
    /\ NoFile
    /\ NoHook
    /\ config = walkConfig
    /\ \/ tree = notesTree /\ faults \in mixedFaults /\ crawler \in Crawlers
       \/ tree = nestedTree /\ faults = NoFaults /\ crawler = Crawler(FALSE, FALSE, FALSE)
       \/ tree = gitTree /\ faults = NoFaults /\ crawler = Crawler(FALSE, FALSE, TRUE)
    /\ NewCrawler

\* the Go scheduler runs a goroutine that can take a step: the walk does not
\* stop while some task can go on
WalkerFairSpec == WalkerFairInit /\ [][WalkerNext]_vars /\ WF_vars(WalkerNext)

----------------------------------------------------------------------------
(* Properties of the walker, checked under WalkerSpec *)

\* the task of d is inside processDirectoryRecursive
inside(d) == pc[d] \notin {"none", "queued", "done"}

\* d lies below k
below(k, d) == Len(d) > Len(k) /\ SubSeq(d, 1, Len(k)) = k

\* C14: for every directory D at most 10 tasks of immediate subdirectories of
\* D are inside processDirectoryRecursive; each of them holds one token of
\* D's semaphore, taken before it entered, and a task that has given its
\* token back has no task of its subtree still running.
C14_BoundedFanOut ==
    \A D \in tree.dirs :
        LET holders == {k \in subdirsToLaunch(tree, D) : inside(k)}
        IN  /\ Cardinality(holders) <= 10
            /\ sem[D] = Cardinality(holders)
            /\ \A k \in subdirsToLaunch(tree, D) :
                   pc[k] \in {"none", "queued", "done"} =>
                       \A d \in tree.dirs : below(k, d) => pc[d] \in {"none", "done"}

\* ten subdirectories of the root hold its gate and the eleventh waits for it
C14_Witness ==
    /\ tree = wideTree
    /\ Cardinality({k \in tree.dirs : pc[k] = "enter"}) = 10
    /\ Cardinality({k \in tree.dirs : pc[k] = "queued"}) = 1
    /\ sem[repoRoot] = 10

\* the results of the ProcessFile calls made on the first i files of the tree
RECURSIVE resultsOf(_, _, _)
resultsOf(h, files, i) ==
    IF i = 0 THEN <<>> ELSE resultsOf(h, files, i - 1) \o h[files[i].path]

allResults == resultsOf(history, tree.files, Len(tree.files))

count(rs, Test(_)) == Len(SelectSeq(rs, Test))

\* C15: no counter increment is lost.  At every moment FilesProcessed is the
\* number of ProcessFile calls made, less the tasks that stand before their
\* increment, and the two other counters likewise; when ProcessRepository has
\* returned, FilesProcessed is the number of calls, FilesModified the number
\* of results with Modified, FilesSkipped the number of SKIP results and
\* FilesProcessed = FilesModified + FilesSkipped.
C15_CountersExact ==
    LET calls    == Len(allResults)
        modified == count(allResults, LAMBDA r : r.Modified)
        skipped  == count(allResults, LAMBDA r : r.Action = "SKIP")
        pending(at) == Cardinality({d \in tree.dirs : pc[d] \in at})
    IN  /\ stats.FilesProcessed = calls - pending({"count"})
        /\ stats.FilesModified + stats.FilesSkipped = calls - pending({"count", "outcome"})
        /\ ret # "running" =>
               /\ stats.FilesProcessed = calls
               /\ stats.FilesModified = modified
               /\ stats.FilesSkipped = skipped
               /\ stats.FilesProcessed = stats.FilesModified + stats.FilesSkipped

\* a forced run over the mixed tree has returned: four calls, modified and
\* skipped files among them
C15_Witness ==
    /\ ret = "nil"
    /\ tree = mixedTree
    /\ crawler.forceReplace
    /\ stats.FilesProcessed = 4
    /\ stats.FilesModified = 3
    /\ stats.FilesSkipped = 1

\* the task of d is inside a print call
printing(d) == pc[d] \in {"printError", "printResult"}

\* C16: every log line of a walker task, result line and directory error
\* line alike, is printed while the task holds logMutex, so no two tasks are
\* inside a print call at the same time.
C16_PrintsUnderLock ==
    /\ \A d \in tree.dirs : printing(d) => logMutex = d
    /\ \A d, e \in tree.dirs : printing(d) /\ printing(e) => d = e

\* the directories above the file or directory p, the root included
ancestors(p) == {SubSeq(p, 1, i) : i \in 1..(Len(p) - 1)}

\* C17: a failed os.ReadDir abandons the subtree of that directory only.
\* ProcessRepository never returns an error, and when it has returned every
\* file outside .git with no unreadable directory above it has been
\* processed.
C17_DirFailureLocal ==
    /\ ret \in {"running", "nil"}
    /\ ret = "nil" =>
           \A p \in filePaths(tree) :
               (~underGit(p) /\ ancestors(p) \cap faults.dirs = {}) => Len(history[p]) = 1

\* the run with directory a unreadable has returned: the files of the root
\* and of the sibling c are processed, those below a are not
C17_Witness ==
    /\ ret = "nil"
    /\ faults.dirs = {dirA}
    /\ Len(history[mainGo]) = 1
    /\ Len(history[runFile]) = 1
    /\ history[aGo] = <<>>
    /\ history[notesMd] = <<>>
    /\ dirB \notin listed

\* the ProcessFile call on p met a failing read or write
failureMet(p) ==
    \/ p \in faults.unreadable
    \/ /\ p \in faults.unwritable
       /\ ProcessFile(fileAt(tree, p).bytes, fileAt(tree, p).ext, config,
                      crawler.forceReplace, crawler.removeMode)[1].Modified

\* C18: a read or write failure on a file makes ProcessFile return SKIP with
\* Modified false and the underlying error in Reason; the walker counts the
\* file as processed and skipped and goes on: when the run has returned every
\* other file has been processed too.
C18_FailureReported ==
    /\ \A p \in filePaths(tree) :
           (history[p] # <<>> /\ failureMet(p)) =>
               /\ history[p][1].Action = "SKIP"
               /\ ~history[p][1].Modified
               /\ history[p][1].Reason \in ErrorReasons
               /\ disk[p] = fileAt(tree, p).bytes
    /\ (ret = "nil" /\ faults.dirs = {}) =>
           /\ \A p \in filePaths(tree) : ~underGit(p) => Len(history[p]) = 1
           /\ stats.FilesSkipped >= Cardinality({p \in filePaths(tree) : failureMet(p)})

\* C19: nothing in a directory named .git, at any depth, is read or
\* processed: no such directory is listed or has a task beyond the check of
\* its name, no file below one is processed or changed.  Every other
\* directory is descended: when the run has returned, each directory outside
\* .git with no unreadable directory above it has been listed.
C19_GitSkipped ==
    /\ \A d \in tree.dirs : underGit(d) => d \notin listed /\ pc[d] \in {"none", "enter", "done"}
    /\ \A p \in filePaths(tree) :
           underGit(p) => history[p] = <<>> /\ disk[p] = fileAt(tree, p).bytes
    /\ ret = "nil" =>
           \A d \in tree.dirs :
               (~underGit(d) /\ ancestors(d) \cap faults.dirs = {}) => d \in listed

\* the run over the mixed tree has returned: the directories at all three
\* depths are listed, the two .git directories are not
C19_Witness ==
    /\ ret = "nil"
    /\ tree = mixedTree
    /\ faults = NoFaults
    /\ listed = {repoRoot, dirA, dirB, dirC}
    /\ pc[<<"repo", "a", ".git">>] = "none"

\* C20: with all directories readable every regular file outside .git is
\* passed to ProcessFile exactly once in a run, and no two tasks are inside
\* ProcessFile on the same path at the same time.
C20_ExactlyOnce ==
    /\ \A p \in filePaths(tree) : Len(history[p]) <= 1
    /\ \A d, e \in tree.dirs :
           (d # e /\ pc[d] = "process" /\ pc[e] = "process") => Head(todo[d]) # Head(todo[e])
    /\ (ret = "nil" /\ faults.dirs = {}) =>
           \A p \in filePaths(tree) : ~underGit(p) => Len(history[p]) = 1

\* the tasks of a and c are inside ProcessFile at the same time, on their
\* own files, after the root's file has had its one call
C20_Witness ==
    /\ tree = mixedTree
    /\ pc[dirA] = "process"
    /\ pc[dirC] = "process"
    /\ Head(todo[dirA]) = aGo
    /\ Head(todo[dirC]) = runFile
    /\ Len(history[mainGo]) = 1
    /\ faults.dirs = {}

----------------------------------------------------------------------------
(* Further properties of the classifier and the mutators, checked under Spec *)

\* line i of sl carries the marker, as DetectExistingHeader tests it
markerOn(sl, i) == containsSPDXIdentifier(TrimSpace(sl[i + 1]))

\* the 0-based marker lines among the lines DetectExistingHeader scans
markerLines(sl) == {i \in 0..(Min(Len(sl), maxLinesToCheck) - 1) : markerOn(sl, i)}

firstMarker(sl) == CHOOSE i \in markerLines(sl) : \A j \in markerLines(sl) : i <= j

\* line i belongs to no header: no marker, and neither walk passes over it
nonHeaderLine(sl, i) ==
    ~markerOn(sl, i) /\ ~startContinues(sl[i + 1]) /\ ~endContinues(sl[i + 1])

\* C21: first match wins.  When a second marker line follows the first one
\* among the scanned lines, with a non-header line between them, the reported
\* span is the one walked backward and forward from the first marker line:
\* the later marker moves neither StartLine nor EndLine.
C21_FirstMatchWins ==
    LET sl == ScanLines(prev)
    IN  (/\ op # "none"
         /\ markerLines(sl) # {}
         /\ \E j \in markerLines(sl), k \in 0..(Len(sl) - 1) :
                firstMarker(sl) < k /\ k < j /\ nonHeaderLine(sl, k)) =>
            LET m == firstMarker(sl)
            IN  /\ info.HasHeader
                /\ info.StartLine = (IF m = 0 THEN 0 ELSE findHeaderStart(sl, m + 1))
                /\ info.EndLine = findHeaderEnd(sl, m)

\* line i of sl mentions a copyright, as the third-party check tests it
copyrightOn(sl, i) == i < Len(sl) /\ Contains(ToLower(TrimSpace(sl[i + 1])), <<"c", "o", "p", "y", "r", "i", "g", "h", "t">>)

\* C22: on a file that starts with a shebang and has no marker, the
\* third-party check looks at the three lines after the shebang:
\* HasThirdPartyCopyright is set exactly when "copyright" is on line 1, 2 or
\* 3, whatever the shebang line itself holds.
C22_ThreeLinesAfterShebang ==
    LET sl == ScanLines(prev)
    IN  (op # "none" /\ info.HasShebang /\ markerLines(sl) = {}) =>
            (info.HasThirdPartyCopyright <=> \E i \in 1..3 : copyrightOn(sl, i))

\* the header text in one block comment of the style
blockWrapped(lines, style) ==
    <<style.BlockStart>>
    \o [i \in 1..Len(lines) |->
           IF TrimSpace(lines[i]) = <<>> THEN <<" ", "*">> ELSE <<" ", "*", " ">> \o lines[i]]
    \o <<<<" ">> \o style.BlockEnd>>

\* the header text with the style's line prefix on every line
linePrefixed(lines, style) ==
    [i \in 1..Len(lines) |->
        IF TrimSpace(lines[i]) = <<>> THEN style.Line ELSE style.Line \o <<" ">> \o lines[i]]

\* C23: the header a call writes is one block comment (open line, " * "
\* before every line, close line) when the style's line prefix is its
\* block-open token; for every other style each line has the line prefix and
\* a space before it, and a blank line is the bare prefix.
C23_BlockOrLinePrefix ==
    (result.Modified /\ op \in {"normal", "force"}) =>
        LET style == GetCommentStyle(ext, prev)[1]
            lines == Split(GenerateHeader(config))
        IN  IF style.Line = style.BlockStart
            THEN HeaderLines = blockWrapped(lines, style)
            ELSE HeaderLines = linePrefixed(lines, style)

\* the marker is on no line of the file
noMarker(bytes) == \A i \in 0..(Len(ScanLines(bytes)) - 1) : ~markerOn(ScanLines(bytes), i)

\* the first line of the file, or the line after its shebang, is not blank
bodyStartsNonBlank(bytes, inf) ==
    LET ls == Split(bytes)
        k  == IF inf.HasShebang THEN 2 ELSE 1
    IN  Len(ls) >= k /\ TrimSpace(ls[k]) # <<>>

\* C26: insert and remove are a round trip.  When a call has added a header
\* to a file (so the file had no "copyright" in its first lines) that has no
\* marker and whose first line, or the line after the shebang, is not blank,
\* in a style whose line prefix isCommentLine knows, a remove call with the
\* same configuration on what was written returns REMOVE and writes the
\* original bytes.
C26_RoundTrip ==
    (/\ op \in {"normal", "force"}
     /\ result.Action = "ADD"
     /\ noMarker(prev)
     /\ bodyStartsNonBlank(prev, info)
     /\ isCommentLine(GetCommentStyle(ext, prev)[1].Line)) =>
        LET r == ProcessFile(content, ext, config, FALSE, TRUE)
        IN  /\ r[1] = ProcessResult("REMOVE", "Removed header (ownership match)", TRUE)
            /\ r[2] = prev

\* a script with a shebang line after an insert and a remove: the header and
\* both separator lines are gone again
C26_Witness ==
    /\ trail = <<[op |-> "normal", action |-> "ADD"], [op |-> "remove", action |-> "REMOVE"]>>
    /\ content = Join(<<shebangLine, codeLine>>)
    /\ info.HasShebang
    /\ info.StartLine = 2

\* the lines of the file before the header licer writes: none, or the
\* shebang line and the blank line after it
linesBeforeHeader(ls) == IF HasPrefix(TrimSpace(ls[1]), <<"#", "!">>) THEN 2 ELSE 0

\* the file is a header licer has written with the configuration, at least
\* one blank line and a body
toolWritten(bytes) ==
    LET ls == Split(bytes)
        k  == linesBeforeHeader(ls)
        N  == Len(HeaderLines)
    IN  /\ Len(ls) > k + N
        /\ k = 2 => ls[2] = <<>>
        /\ SubSeq(ls, k + 1, k + N) = HeaderLines
        /\ ls[k + N + 1] = <<>>

\* C27 as stated: a forced replace on a tool-written file, whatever its body,
\* returns REPLACE and writes the file with one more blank line between
\* header and body.
C27_OneMoreBlank ==
    (op = "force" /\ toolWritten(prev)) =>
        LET old == Split(prev)
            k   == linesBeforeHeader(old) + Len(HeaderLines)
        IN  /\ result.Action = "REPLACE"
            /\ Split(content) = SubSeq(old, 1, k) \o <<blankLine>> \o SubSeq(old, k + 1, Len(old))

\* the only marker line among the scanned lines of the file is the one of
\* the header licer wrote
oneMarker(bytes) ==
    LET sl == ScanLines(bytes)
    IN  \A i \in markerLines(sl) : \A j \in markerLines(sl) : i = j

\* The same statement for files whose only marker line is the header's own:
\* it still fails where the line prefix of the style is none isCommentLine
\* knows ("(*" of .ml), since findHeaderStart then stops at the marker line.
C27_OneMoreBlankBody ==
    (op = "force" /\ toolWritten(prev) /\ oneMarker(prev)) =>
        LET old == Split(prev)
            k   == linesBeforeHeader(old) + Len(HeaderLines)
        IN  /\ result.Action = "REPLACE"
            /\ Split(content) = SubSeq(old, 1, k) \o <<blankLine>> \o SubSeq(old, k + 1, Len(old))

----------------------------------------------------------------------------
(* Further properties of the walker, checked under WalkerSpec and          *)
(* WalkerFairSpec                                                          *)

\* the file p lies below D and the walk from D reaches it: no directory from
\* D down to it is unreadable or named .git
reachedFrom(D, p) ==
    /\ below(D, p)
    /\ \A a \in ancestors(p) :
           Len(a) >= Len(D) => a \notin faults.dirs /\ Base(a) # ".git"

\* C24: structured join.  When processDirectoryRecursive(D) has returned, no
\* task of a directory below D is still running, and every file the walk
\* reaches from D has had its ProcessFile call and its counter updates; when
\* ProcessRepository has returned, and with it the summary is printed, no
\* task runs any more and the counters hold every call of the run.
C24_StructuredJoin ==
    /\ \A D \in tree.dirs :
           pc[D] = "done" =>
               /\ \A d \in tree.dirs : below(D, d) => pc[d] \in {"none", "done"}
               /\ \A p \in filePaths(tree) : reachedFrom(D, p) => Len(history[p]) = 1
    /\ ret # "running" =>
           /\ \A d \in tree.dirs : pc[d] \in {"none", "done"}
           /\ stats.FilesProcessed = Len(allResults)
           /\ stats.FilesProcessed = Cardinality({p \in filePaths(tree) :
                                                      reachedFrom(rootOf(tree), p)})

\* the call on directory a has returned, with the files of a and of a/b
\* processed, while the root still waits for the task of c
C24_Witness ==
    /\ tree = mixedTree
    /\ faults = NoFaults
    /\ pc[dirA] = "done"
    /\ pc[dirC] = "process"
    /\ pc[repoRoot] = "wait"
    /\ Len(history[aGo]) = 1
    /\ Len(history[notesMd]) = 1
    /\ ret = "running"

MaxHookCalls == 3

\* the script installPreCommitHook writes, byte for byte
preCommitHookScript ==
    Join(<<<<"#", "!", "/", "b", "i", "n", "/", "b", "a", "s", "h">>,
           <<>>,
           <<"#", " ", "L", "i", "c", "e", "r", " ", "p", "r", "e", "-", "c", "o", "m", "m", "i", "t", " ", "h", "o", "o", "k", " ", "-", " ", "A", "u", "t", "o", "m", "a", "t", "i", "c", "a", "l", "l", "y", " ", "a", "d", "d", " ", "l", "i", "c", "e", "n", "s", "e", " ", "h", "e", "a", "d", "e", "r", "s", " ", "t", "o", " ", "n", "e", "w", " ", "f", "i", "l", "e", "s">>,
           <<>>,
           <<"#", " ", "G", "e", "t", " ", "t", "h", "e", " ", "d", "i", "r", "e", "c", "t", "o", "r", "y", " ", "w", "h", "e", "r", "e", " ", "l", "i", "c", "e", "r", " ", "b", "i", "n", "a", "r", "y", " ", "i", "s", " ", "l", "o", "c", "a", "t", "e", "d">>,
           <<"L", "I", "C", "E", "R", "_", "P", "A", "T", "H", "=", "\"", "$", "(", "w", "h", "i", "c", "h", " ", "l", "i", "c", "e", "r", ")", "\"">>,
           <<"i", "f", " ", "[", " ", "-", "z", " ", "\"", "$", "L", "I", "C", "E", "R", "_", "P", "A", "T", "H", "\"", " ", "]", ";", " ", "t", "h", "e", "n">>,
           <<" ", " ", " ", " ", "#", " ", "T", "r", "y", " ", "t", "o", " ", "f", "i", "n", "d", " ", "l", "i", "c", "e", "r", " ", "i", "n", " ", "c", "o", "m", "m", "o", "n", " ", "l", "o", "c", "a", "t", "i", "o", "n", "s">>,
           <<" ", " ", " ", " ", "R", "E", "P", "O", "_", "R", "O", "O", "T", "=", "\"", "$", "(", "g", "i", "t", " ", "r", "e", "v", "-", "p", "a", "r", "s", "e", " ", "-", "-", "s", "h", "o", "w", "-", "t", "o", "p", "l", "e", "v", "e", "l", ")", "\"">>,
           <<" ", " ", " ", " ", "f", "o", "r", " ", "p", "a", "t", "h", " ", "i", "n", " ", "\"", ".", "/", "l", "i", "c", "e", "r", "\"", " ", "\"", ".", ".", "/", "l", "i", "c", "e", "r", "\"", " ", "\"", "$", "R", "E", "P", "O", "_", "R", "O", "O", "T", "/", "l", "i", "c", "e", "r", "\"", ";", " ", "d", "o">>,
           <<" ", " ", " ", " ", " ", " ", " ", " ", "i", "f", " ", "[", " ", "-", "x", " ", "\"", "$", "p", "a", "t", "h", "\"", " ", "]", ";", " ", "t", "h", "e", "n">>,
           <<" ", " ", " ", " ", " ", " ", " ", " ", " ", " ", " ", " ", "L", "I", "C", "E", "R", "_", "P", "A", "T", "H", "=", "\"", "$", "p", "a", "t", "h", "\"">>,
           <<" ", " ", " ", " ", " ", " ", " ", " ", " ", " ", " ", " ", "b", "r", "e", "a", "k">>,
           <<" ", " ", " ", " ", " ", " ", " ", " ", "f", "i">>,
           <<" ", " ", " ", " ", "d", "o", "n", "e">>,
           <<"f", "i">>,
           <<>>,
           <<"i", "f", " ", "[", " ", "-", "z", " ", "\"", "$", "L", "I", "C", "E", "R", "_", "P", "A", "T", "H", "\"", " ", "]", ";", " ", "t", "h", "e", "n">>,
           <<" ", " ", " ", " ", "e", "c", "h", "o", " ", "\"", "W", "a", "r", "n", "i", "n", "g", ":", " ", "l", "i", "c", "e", "r", " ", "n", "o", "t", " ", "f", "o", "u", "n", "d", ",", " ", "s", "k", "i", "p", "p", "i", "n", "g", " ", "h", "e", "a", "d", "e", "r", " ", "c", "h", "e", "c", "k", "\"", " ", ">", "&", "2">>,
           <<" ", " ", " ", " ", "e", "x", "i", "t", " ", "0">>,
           <<"f", "i">>,
           <<>>,
           <<"#", " ", "R", "u", "n", " ", "l", "i", "c", "e", "r", " ", "i", "n", " ", "p", "r", "e", "-", "c", "o", "m", "m", "i", "t", " ", "m", "o", "d", "e">>,
           <<"\"", "$", "L", "I", "C", "E", "R", "_", "P", "A", "T", "H", "\"", " ", "-", "-", "p", "r", "e", "-", "c", "o", "m", "m", "i", "t", " ", "-", "-", "v", "e", "r", "b", "o", "s", "e", "=", "f", "a", "l", "s", "e">>,
           <<>>,
           <<"e", "x", "i", "t", " ", "0">>,
           <<>>>>)

\* a file of the hooks directory: its bytes and whether a 0111 bit is set
HookFile(bytes, executable) == [exists |-> TRUE, content |-> bytes, exec |-> executable]

\* no file under that name
NoEntry == [exists |-> FALSE, content |-> <<>>, exec |-> FALSE]

\* .git/hooks: whether the directory is there, pre-commit and pre-commit.backup
HooksDir(present, hook, backupFile) ==
    [dir |-> present, preCommit |-> hook, backup |-> backupFile]

\* isHookInstalled: the file is there, executable, and has the text
isHookInstalled(h) ==
    IF ~h.preCommit.exists THEN FALSE
    ELSE IF ~h.preCommit.exec THEN FALSE
    ELSE Contains(h.preCommit.content, <<"l", "i", "c", "e", "r", " ", "-", "-", "p", "r", "e", "-", "c", "o", "m", "m", "i", "t">>)

\* installPreCommitHook: <<the directory afterwards, the error returned>>;
\* fail names the file operation that fails, if it is reached
installPreCommitHook(h, fail) ==
    IF fail = "mkdir" THEN <<h, "failed to create hooks directory">>
    ELSE IF h.preCommit.exists /\ fail = "rename"
    THEN <<[h EXCEPT !.dir = TRUE], "failed to backup existing hook">>
    ELSE LET moved == IF h.preCommit.exists
                      THEN HooksDir(TRUE, NoEntry, h.preCommit)
                      ELSE HooksDir(TRUE, NoEntry, h.backup)
         IN  IF fail = "write" THEN <<moved, "failed to write hook script">>
             ELSE <<[moved EXCEPT !.preCommit = HookFile(preCommitHookScript, TRUE)], "nil">>

\* uninstallPreCommitHook: <<the directory afterwards, the error returned>>
uninstallPreCommitHook(h, fail) ==
    IF ~isHookInstalled(h) THEN <<h, "nil">>
    ELSE IF fail = "remove" THEN <<h, "failed to remove hook">>
    ELSE IF h.backup.exists
    THEN IF fail = "rename"
         THEN <<[h EXCEPT !.preCommit = NoEntry], "failed to restore backup hook">>
         ELSE <<HooksDir(h.dir, h.backup, NoEntry), "nil">>
    ELSE <<[h EXCEPT !.preCommit = NoEntry], "nil">>

\* the file operations that can fail
HookFaults == {"none", "mkdir", "rename", "write", "remove"}

\* hooks a user has written: one that runs a linter, executable or not, and
\* one that calls licer itself
lintHook == Join(<<<<"#", "!", "/", "b", "i", "n", "/", "s", "h">>, <<"m", "a", "k", "e", " ", "l", "i", "n", "t">>, <<>>>>)

ownLicerHook == Join(<<<<"#", "!", "/", "b", "i", "n", "/", "s", "h">>, <<"l", "i", "c", "e", "r", " ", "-", "-", "p", "r", "e", "-", "c", "o", "m", "m", "i", "t">>, <<>>>>)

UserHooks ==
    {HookFile(lintHook, TRUE), HookFile(lintHook, FALSE), HookFile(ownLicerHook, TRUE)}

\* a backup file left by something else
strayBackup == HookFile(Join(<<<<"#", "!", "/", "b", "i", "n", "/", "s", "h">>, <<"t", "r", "u", "e">>, <<>>>>), TRUE)

HookDirs ==
    {HooksDir(FALSE, NoEntry, NoEntry)}
        \cup {HooksDir(TRUE, f, b) : f \in UserHooks \cup {NoEntry}, b \in {NoEntry, strayBackup}}

HookInit ==
    /\ NoFile
    /\ config = walkConfig
    /\ NoWalk
    /\ gitHooks \in HookDirs
    /\ hookOp = "none"
    /\ hookErr = "nil"
    /\ prompted = FALSE
    /\ userHook = gitHooks.preCommit
    /\ hookCalls = 0

\* licer --install-hook: handleHookManagement calls installPreCommitHook
Install ==
    /\ hookCalls < MaxHookCalls
    /\ \E fail \in HookFaults :
           \E r \in {installPreCommitHook(gitHooks, fail)} :
               /\ gitHooks' = r[1]
               /\ hookErr' = r[2]
    /\ hookOp' = "install"
    /\ hookCalls' = hookCalls + 1
    /\ UNCHANGED <<prompted, userHook, config, fileVars, walkVars>>

\* licer --remove-hook: handleHookManagement calls uninstallPreCommitHook
Uninstall ==
    /\ hookCalls < MaxHookCalls
    /\ \E fail \in HookFaults :
           \E r \in {uninstallPreCommitHook(gitHooks, fail)} :
               /\ gitHooks' = r[1]
               /\ hookErr' = r[2]
    /\ hookOp' = "uninstall"
    /\ hookCalls' = hookCalls + 1
    /\ UNCHANGED <<prompted, userHook, config, fileVars, walkVars>>

\* a run of licer on the repository: main asks for the hook when no
\* --git-folder was given and isHookInstalled says no, and installs it on
\* "y"; a failed installation is a warning only
HookPrompt ==
    /\ hookCalls < MaxHookCalls
    /\ \E gitFolder \in BOOLEAN, answer \in BOOLEAN, fail \in HookFaults :
           IF ~gitFolder /\ ~isHookInstalled(gitHooks)
           THEN /\ prompted' = TRUE
                /\ IF answer
                   THEN \E r \in {installPreCommitHook(gitHooks, fail)} :
                            gitHooks' = r[1] /\ hookErr' = r[2]
                   ELSE gitHooks' = gitHooks /\ hookErr' = "nil"
           ELSE /\ prompted' = FALSE
                /\ gitHooks' = gitHooks /\ hookErr' = "nil"
    /\ hookOp' = "main"
    /\ hookCalls' = hookCalls + 1
    /\ UNCHANGED <<userHook, config, fileVars, walkVars>>

HookNext == Install \/ Uninstall \/ HookPrompt

HookSpec == HookInit /\ [][HookNext]_vars

\* C28: the installed hook is recognised.  After installPreCommitHook has
\* returned without error, isHookInstalled is true of the repository.
C28_InstalledIsSeen ==
    (hookOp = "install" /\ hookErr = "nil") => isHookInstalled(gitHooks)

\* C29: the user's hook is never lost.  When the repository had a pre-commit
\* file before licer touched it, then after any installs and uninstalls that
\* file, bytes and mode, is pre-commit or pre-commit.backup.
C29_UserHookKept ==
    userHook.exists => (gitHooks.preCommit = userHook \/ gitHooks.backup = userHook)
====
